---------------------------- MODULE Spec2Model ----------------------------
(***************************************************************************)
(* A model of the allostatic-agent simulation: the per-agent physiology    *)
(* and decision rule (agents.py), the world-stepping engine (model.py),    *)
(* and the lock discipline of its callers (shared.py, api_server.py,       *)
(* app.py).                                                                *)
(*                                                                         *)
(* Numbers.  The program computes in IEEE doubles.  The model computes in  *)
(* fixed point: every energy, food, scent, memory, temperature, valence    *)
(* and precision value is an integer count of hundredths (UNIT = 100 is    *)
(* 1.0), and the argument and the result of exp are counts of              *)
(* ten-thousandths (EXP_ONE = 10000 is 1.0).  Multiplications by a decimal *)
(* factor round towards minus infinity.                                    *)
(***************************************************************************)
EXTENDS Integers, Sequences, FiniteSets, TLC

UNIT == 10 * 10
EXP_ONE == UNIT * UNIT

(***************************************************************************)
(* Bounds of the model.                                                    *)
(***************************************************************************)
\* width and height passed to DualDriveModel(); generate_food_field draws
\* the patch centre with randint(5, width-5), so 11 is the smallest grid
\* the program can construct.
GRID_WIDTH == 11
GRID_HEIGHT == 11
\* ticks executed by one simulation instance within a behaviour
MaxTicks == 2
\* deposit_food calls within a behaviour
MaxDrops == 1

(***************************************************************************)
(* agents.py, CONFIGURATION (hundredths unless stated otherwise)           *)
(***************************************************************************)
METABOLISM == 15
MAX_ENERGY == 10000
CRITICAL_ENERGY == 5000
FOOD_INTAKE == 1000
IDEAL_TEMP == 2500
INIT_ENERGY_MIN == 4000
INIT_ENERGY_MAX == 9500
\* percent
SCENT_DECAY == 94
\* percent
MEMORY_DECAY == 90
\* ticks
FOOD_SIGNAL_DURATION == 15
\* plain factors
SOCIAL_WEIGHT == 3
WEIGHT_TEMP == 1
WEIGHT_ENERGY == 4
BETA_BASE == 600
BETA_MAX == 3000
\* tenths: 1.5
WEIGHT_EPISTEMIC == 15
EXPLORATION_FACTOR == 10
\* percent: ETA 0.1, MU_AFFECT 0.4, SIGMA 0.8
ETA == 10
MU_AFFECT == 40
SIGMA == 80
\* plain factors
TEMP_BASE_MAX == 28
TEMP_SPOT_1 == 14
TEMP_SPOT_2 == 12
\* literals of the code
\* T_int = 10.0 at birth
BIRTH_TEMP == 1000
\* food_available > 0.1
EAT_EPSILON == 10
\* intake > 1.0
SIGNAL_INTAKE == 100
\* np.clip(..., 0.5, BETA_MAX)
BETA_MIN == 50
\* values below 0.05 are zeroed (fields) or pruned (visits)
FLOOR == 5
\* visit_cleanup_counter >= 50
CLEANUP_EVERY == 50
\* valence_bound = 2.0
VALENCE_BOUND_INIT == 200
\* dist < 30 in generate_food_field
PATCH_RADIUS_SQ == 30
\* randint(5, width-5)
PATCH_MARGIN == 5

NONE == "None"
\* None where the attribute otherwise holds a number (an error is >= 0) or
\* a cell
NoError == 0 - 1
NoPos == <<0 - 1, 0 - 1>>
EmptyMap == [c \in {} |-> 0]

Abs(x) == IF x < 0 THEN -x ELSE x
Max(x, y) == IF x >= y THEN x ELSE y
Min(x, y) == IF x <= y THEN x ELSE y
Min3(x, y, z) == Min(x, Min(y, z))
Clip(x, lo, hi) == IF x < lo THEN lo ELSE IF x > hi THEN hi ELSE x

RECURSIVE Sum(_, _)
Sum(f, S) == IF S = {} THEN 0
             ELSE LET m == CHOOSE m \in S : TRUE IN f[m] + Sum(f, S \ {m})

(***************************************************************************)
(* np.exp in fixed point.  x and the result count ten-thousandths.  The    *)
(* series is summed on [-1/2, 1/2]; outside it exp(x) = exp(x/2)^2.  The   *)
(* argument is saturated to [-12, 2]: below, the result is under the       *)
(* resolution; above, the only use (the precision) is clipped anyway.      *)
(***************************************************************************)
RECURSIVE ExpSeries(_, _, _, _)
ExpSeries(x, term, k, acc) ==
    IF term = 0 \/ k > 12 THEN acc
    ELSE ExpSeries(x, (term * x) \div (k * EXP_ONE), k + 1, acc + term)

RECURSIVE ExpRed(_)
ExpRed(x) ==
    IF Abs(x) <= EXP_ONE \div 2 THEN ExpSeries(x, EXP_ONE, 1, 0)
    ELSE LET h == ExpRed(x \div 2) IN (h * h) \div EXP_ONE

Exp(x) == ExpRed(Clip(x, (0 - 12) * EXP_ONE, 2 * EXP_ONE))

Xs == 0 .. (GRID_WIDTH - 1)
Ys == 0 .. (GRID_HEIGHT - 1)
Cells == Xs \X Ys

(***************************************************************************)
(* model.py, Environment Fields                                            *)
(***************************************************************************)
TemperatureAt(x, y, width, height) ==
    LET d1 == (2 * x - width) * (2 * x - width) + (2 * y - height) * (2 * y - height)
        d2 == (10 * x - 2 * width) * (10 * x - 2 * width)
              + (10 * y - 8 * height) * (10 * y - 8 * height)
        d3 == (4 * x - 3 * width) * (4 * x - 3 * width)
              + (4 * y - height) * (4 * y - height)
        \* /(width*7.5) with doubled coordinates: /(4 * 7.5 * width)
        e1 == Exp(0 - ((d1 * EXP_ONE) \div (30 * width)))
        \* /70 with coordinates in tenths
        e2 == Exp(0 - ((d2 * UNIT) \div 70))
        \* /60 with coordinates in quarters
        e3 == Exp(0 - ((d3 * EXP_ONE) \div (16 * 60)))
    IN  (TEMP_BASE_MAX * e1 + TEMP_SPOT_1 * e2 + TEMP_SPOT_2 * e3) \div UNIT

generate_temperature_field(width, height) ==
    [c \in (0 .. (width - 1)) \X (0 .. (height - 1)) |->
        TemperatureAt(c[1], c[2], width, height)]

\* one patch: centre (cx, cy), amplitude amp (hundredths), spread sigma
\* (tenths)
generate_food_field(width, height, cx, cy, amp, sigma) ==
    [c \in (0 .. (width - 1)) \X (0 .. (height - 1)) |->
        LET dist == (c[1] - cx) * (c[1] - cx) + (c[2] - cy) * (c[2] - cy)
        IN  IF dist < PATCH_RADIUS_SQ
            THEN (amp * Exp(0 - ((dist * UNIT * EXP_ONE) \div (2 * sigma * sigma))))
                 \div EXP_ONE
            ELSE 0]

\* the field DualDriveModel.__init__ generates; what the agents read of
\* model.temperature, which never differs from it (C25)
temperature == generate_temperature_field(GRID_WIDTH, GRID_HEIGHT)

\* the ids Mesa gives the agents spawned by DualDriveModel.__init__
AgentIds == {1, 2}
NUM_AGENTS == Cardinality(AgentIds)

directions ==
    << <<-1, 0>>, <<1, 0>>, <<0, -1>>, <<0, 1>>,
       <<1, 1>>, <<-1, 1>>, <<1, -1>>, <<-1, -1>> >>

VARIABLES
    agent,            \* id -> the attributes of the AllostaticAgent object
    agents,           \* model.agents, the active set
    grid,             \* the agents placed on model.grid
    food,             \* model.food
    food_scent,       \* model.food_scent
    shared_memory,    \* model.shared_memory
    dead_count,       \* model.dead_count
    steps,            \* model.steps
    ui_pc,            \* the dashboard thread: "idle", "tick", "reset" or "playing"
    todo,             \* step(): the part of the shuffled list not yet stepped
    dead_agents,      \* step(): the local list dead_agents
    simulation_lock,  \* shared.simulation_lock: NONE or its holder
    http_pc,          \* the Flask thread: "idle" or the handler in its with-block
    http_response,    \* what the handler has computed for its reply
    dash_view,        \* what a dashboard render has read: NONE when not rendering
    tick_food0,       \* history: the food, when the latest tick began, on the
                      \* cells the agents stood on
    eaten,            \* history: cell -> food eaten from it in the latest tick
    tick_alive0,      \* history: the agents alive when the latest tick began
    drops,            \* history: number of drop_food calls made
    neg_drop,         \* history: some drop_food call had a negative amount
    tick_pos0,        \* history: agent -> its cell when the latest tick began
    tick_total0,      \* history: the food of all cells plus the energy of the
                      \* live agents, when the tick in progress began; 0
                      \* between ticks
    call,             \* the latest direct call of a method of an agent: its
                      \* name, the agent and what it returned
    twin,             \* a second DualDriveModel, constructed with the same
                      \* seed and driven by the same calls: NoTwin when there
                      \* is none
    model_temperature, \* model.temperature, the attribute __init__ assigns
    since_meal        \* history: agent -> the ticks it has lived through since
                      \* its latest meal above 1.0, the tick of the meal
                      \* counted; 0 when it has had none

engine_vars == <<agent, agents, grid, food, food_scent, shared_memory, dead_count, steps,
                 model_temperature>>
tick_vars == <<ui_pc, todo, dead_agents>>
tick_hist == <<tick_food0, eaten, tick_alive0, drops, neg_drop, tick_pos0,
               tick_total0>>
hist_vars == <<tick_hist, since_meal>>
vars == <<agent, agents, grid, food, food_scent, shared_memory, dead_count, steps,
          ui_pc, todo, dead_agents, simulation_lock, http_pc, http_response,
          dash_view, tick_food0, eaten, tick_alive0, drops, neg_drop, tick_pos0,
          tick_total0, call, twin, model_temperature, since_meal>>

(***************************************************************************)
(* agents.py, AllostaticAgent                                              *)
(***************************************************************************)
\* AllostaticAgent.__init__ with E_int = e, placed at p
NewAgent(e, p) ==
    [ is_alive |-> TRUE,
      pos |-> p,
      T_int |-> BIRTH_TEMP,
      E_int |-> e,
      prev_total_error |-> NoError,
      valence_integrated |-> 0,
      valence_bound |-> VALENCE_BOUND_INIT,
      current_beta |-> BETA_BASE,
      visits |-> EmptyMap,
      visit_cleanup_counter |-> 0,
      food_signal_timer |-> 0 ]

\* total_error of update_internal_state, step 5
TotalError(T, E) ==
    WEIGHT_TEMP * Abs(T - IDEAL_TEMP) + WEIGHT_ENERGY * Max(0, CRITICAL_ENERGY - E)

\* (mutant) the precision without np.clip
PrecisionUnclipped(valence) == (BETA_BASE * Exp(SIGMA * valence)) \div EXP_ONE

\* np.clip(BETA_BASE * np.exp(SIGMA * valence), 0.5, BETA_MAX)
Precision(valence) ==
    Clip((BETA_BASE * Exp(SIGMA * valence)) \div EXP_ONE, BETA_MIN, BETA_MAX)

\* the food the eating rule reads: self.model.food[x, y]
FoodAvailable(f, c) == f[c]

\* (mutant) the meal is taken from a copy of the field: the cell keeps its
\* food, and the agents stepped later read what the tick began with
EatFromCopy(f, c, intake) == f

\* self.model.food[x, y] -= intake
Eat(f, c, intake) == [f EXCEPT ![c] = @ - intake]

\* (mutant) the meal taken whenever the cell holds any food at all
IntakeNoEpsilon(e, food_available) ==
    IF food_available > 0 /\ e < MAX_ENERGY
    THEN Min3(FOOD_INTAKE, food_available, MAX_ENERGY - e)
    ELSE 0

\* (mutant) the intake not capped by the room left in the stomach
IntakeNoRoom(e, food_available) ==
    IF food_available > EAT_EPSILON /\ e < MAX_ENERGY
    THEN Min(FOOD_INTAKE, food_available)
    ELSE 0

\* (mutant) the intake not capped by the food the cell holds
IntakeNotCapped(e, food_available) ==
    IF food_available > EAT_EPSILON /\ e < MAX_ENERGY
    THEN Min(FOOD_INTAKE, MAX_ENERGY - e)
    ELSE 0

\* min(FOOD_INTAKE, food_available, space_in_stomach), 0 when the agent does
\* not eat; e is the energy after metabolism
Intake(e, food_available) ==
    IF food_available > EAT_EPSILON /\ e < MAX_ENERGY
    THEN Min3(FOOD_INTAKE, food_available, MAX_ENERGY - e)
    ELSE 0

\* (mutant) the countdown without its test: the timer goes on below 0
SignalTimerNoFloor(timer, intake) ==
    (IF intake > SIGNAL_INTAKE THEN FOOD_SIGNAL_DURATION ELSE timer) - 1

\* the timer after the eating step and the countdown
SignalTimer(timer, intake) ==
    LET t1 == IF intake > SIGNAL_INTAKE THEN FOOD_SIGNAL_DURATION ELSE timer
    IN  IF t1 > 0 THEN t1 - 1 ELSE t1

\* (mutant) prev_total_error born 0.0 instead of None: the first error
\* counts as a worsening
FeelFromZero(a, T, E, timer) ==
    LET total_error == TotalError(T, E)
        prev == IF a.prev_total_error = NoError THEN 0 ELSE a.prev_total_error
        inst_valence == 0 - (total_error - prev)
        valence == a.valence_integrated
                   + ((MU_AFFECT * (inst_valence - a.valence_integrated)) \div UNIT)
    IN  [a EXCEPT !.T_int = T, !.E_int = E, !.food_signal_timer = timer,
                  !.prev_total_error = total_error,
                  !.valence_integrated = valence,
                  !.current_beta = Precision(valence),
                  !.valence_bound = Max(a.valence_bound, Abs(valence))]

\* step 5 of update_internal_state: valence and precision
Feel(a, T, E, timer) ==
    LET total_error == TotalError(T, E)
        prev == IF a.prev_total_error = NoError THEN total_error ELSE a.prev_total_error
        inst_valence == 0 - (total_error - prev)
        valence == a.valence_integrated
                   + ((MU_AFFECT * (inst_valence - a.valence_integrated)) \div UNIT)
    IN  [a EXCEPT !.T_int = T, !.E_int = E, !.food_signal_timer = timer,
                  !.prev_total_error = total_error,
                  !.valence_integrated = valence,
                  !.current_beta = Precision(valence),
                  !.valence_bound = Max(a.valence_bound, Abs(valence))]

\* (mutant) the death branch without its return: step 5 runs on the dead agent
DieFallThrough(a, T, timer) == [Feel(a, T, 0, timer) EXCEPT !.is_alive = FALSE]

\* step 4 of update_internal_state: the death branch
Die(a, T, timer) ==
    [a EXCEPT !.T_int = T, !.food_signal_timer = timer,
              !.E_int = 0, !.is_alive = FALSE, !.current_beta = 0]

\* (mutant) the agent credited with a whole FOOD_INTAKE whenever it eats,
\* while the cell loses the capped intake
PhysiologyWholeMeal(a, f) ==
    LET T == a.T_int + ((ETA * (temperature[a.pos] - a.T_int)) \div UNIT)
        E1 == a.E_int - METABOLISM
        intake == Intake(E1, FoodAvailable(f, a.pos))
        E2 == E1 + (IF intake > 0 THEN FOOD_INTAKE ELSE 0)
        timer == SignalTimer(a.food_signal_timer, intake)
    IN  [agent |-> IF E2 <= 0 THEN Die(a, T, timer) ELSE Feel(a, T, E2, timer),
         intake |-> intake]

\* update_internal_state past its first line: the agent afterwards, and
\* what it ate
Physiology(a, f) ==
    LET T == a.T_int + ((ETA * (temperature[a.pos] - a.T_int)) \div UNIT)
        E1 == a.E_int - METABOLISM
        intake == Intake(E1, FoodAvailable(f, a.pos))
        E2 == E1 + intake
        timer == SignalTimer(a.food_signal_timer, intake)
    IN  [agent |-> IF E2 <= 0 THEN Die(a, T, timer) ELSE Feel(a, T, E2, timer),
         intake |-> intake]

\* (mutant) update_internal_state without `if not self.is_alive: return`
update_internal_state_unguarded(a, f) == Physiology(a, f)

\* update_internal_state: the agent afterwards, and what it ate
update_internal_state(a, f) ==
    IF ~a.is_alive THEN [agent |-> a, intake |-> 0] ELSE Physiology(a, f)

\* (mutant) only the upper edges tested: a negative coordinate passes, and
\* indexes the arrays from their far end
out_of_bounds_upper_only(c) == ~(c[1] < GRID_WIDTH /\ c[2] < GRID_HEIGHT)

\* self.model.grid.out_of_bounds((nx, ny))
out_of_bounds(c) == ~(c[1] \in Xs /\ c[2] \in Ys)

\* the moves list of choose_action: the legal cells among the eight
\* neighbours and the agent's own cell
Candidates(p) ==
    {c \in {<<p[1] + directions[k][1], p[2] + directions[k][2]>> : k \in 1 .. 8}
           \cup {p} : ~out_of_bounds(c)}

\* intake_pred of choose_action
IntakePred(a, food_there) ==
    IF food_there > EAT_EPSILON /\ (a.E_int - METABOLISM) < MAX_ENERGY
    THEN Min(FOOD_INTAKE, food_there)
    ELSE 0

G_pragmatic(a, c, f) ==
    LET T_pred == a.T_int + ((ETA * (temperature[c] - a.T_int)) \div UNIT)
        E_pred == a.E_int - METABOLISM + IntakePred(a, f[c])
    IN  0 - (WEIGHT_TEMP * Abs(T_pred - IDEAL_TEMP)
             + WEIGHT_ENERGY * Max(0, CRITICAL_ENERGY - E_pred))

\* 1.0 / (1.0 + EXPLORATION_FACTOR * shared_trace)
G_epistemic(c, mem) == (UNIT * UNIT) \div (UNIT + EXPLORATION_FACTOR * mem[c])

G_social(a, c, scent) ==
    IF a.E_int < CRITICAL_ENERGY THEN SOCIAL_WEIGHT * scent[c] ELSE 0

\* (mutant) the epistemic value read from the agent's own visit map
ScoreWithPrivateMemory(a, c, f, mem, scent) ==
    G_pragmatic(a, c, f)
    + ((WEIGHT_EPISTEMIC
        * ((UNIT * UNIT)
           \div (UNIT + EXPLORATION_FACTOR
                          * (IF c \in DOMAIN a.visits THEN a.visits[c] ELSE 0))))
       \div 10)
    + G_social(a, c, scent)

\* G of choose_action for the candidate c
Score(a, c, f, mem, scent) ==
    G_pragmatic(a, c, f) + ((WEIGHT_EPISTEMIC * G_epistemic(c, mem)) \div 10)
    + G_social(a, c, scent)

SetMax(S) == CHOOSE m \in S : \A n \in S : n <= m

\* np.exp(z) is 0.0 for z below about -745: the candidate's probability is
\* then exactly 0 and np.random.choice never draws it
EXP_UNDERFLOW == 745

\* choose_action: the cells the softmax draw can return.  Every candidate
\* whose probability is not 0 is taken to be drawable.
choose_action(a, f, mem, scent) ==
    IF ~a.is_alive THEN {a.pos}
    ELSE
    LET moves == Candidates(a.pos)
        best == SetMax({Score(a, c, f, mem, scent) : c \in moves})
    IN  {c \in moves :
            a.current_beta * (best - Score(a, c, f, mem, scent))
                <= EXP_UNDERFLOW * EXP_ONE}

Get(v, c) == IF c \in DOMAIN v THEN v[c] ELSE 0

\* (mutant) the visit map pruned at every update, not every 50th
RememberPrunedEachTime(a) ==
    LET keys == DOMAIN a.visits \cup {a.pos}
        decayed == [c \in keys |->
                       ((IF c = a.pos THEN Get(a.visits, c) + UNIT ELSE a.visits[c])
                        * MEMORY_DECAY) \div UNIT]
    IN  [a EXCEPT !.visits = [c \in {k \in keys : decayed[k] >= FLOOR} |-> decayed[c]],
                  !.visit_cleanup_counter = 0]

\* part A of manage_memory_and_scent: the private visit map and its counter
Remember(a) ==
    LET keys == DOMAIN a.visits \cup {a.pos}
        decayed == [c \in keys |->
                       ((IF c = a.pos THEN Get(a.visits, c) + UNIT ELSE a.visits[c])
                        * MEMORY_DECAY) \div UNIT]
        counter == a.visit_cleanup_counter + 1
    IN  IF counter >= CLEANUP_EVERY
        THEN [a EXCEPT !.visits = [c \in {k \in keys : decayed[k] >= FLOOR} |-> decayed[c]],
                       !.visit_cleanup_counter = 0]
        ELSE [a EXCEPT !.visits = decayed, !.visit_cleanup_counter = counter]

\* signal_strength = (food_signal_timer / FOOD_SIGNAL_DURATION) * 2.0
SignalStrength(timer) == (timer * 2 * UNIT) \div FOOD_SIGNAL_DURATION

\* manage_memory_and_scent: the agent, shared_memory and food_scent afterwards
manage_memory_and_scent(a, mem, scent) ==
    IF ~a.is_alive THEN [agent |-> a, shared_memory |-> mem, food_scent |-> scent]
    ELSE [agent |-> Remember(a),
          shared_memory |-> [mem EXCEPT ![a.pos] = @ + UNIT],
          food_scent |-> IF a.food_signal_timer > 0
                         THEN [scent EXCEPT ![a.pos] = @ + SignalStrength(a.food_signal_timer)]
                         ELSE scent]

(***************************************************************************)
(* A world is the part of the engine a step reads and writes:              *)
(* [agent, food, shared_memory, food_scent].                               *)
(***************************************************************************)
\* (mutant) the memory and scent update made before the move: the traces
\* are left on the cell the step began on
agent_step_marks_before_move(w, id, new_pos) ==
    LET a == w.agent[id]
        u == update_internal_state(a, w.food)
        food1 == Eat(w.food, a.pos, u.intake)
    IN  IF ~a.is_alive THEN w
        ELSE IF ~u.agent.is_alive
        THEN [w EXCEPT !.agent[id] = u.agent, !.food = food1]
        ELSE LET m == manage_memory_and_scent(u.agent, w.shared_memory, w.food_scent)
             IN  [agent |-> [w.agent EXCEPT ![id] = [m.agent EXCEPT !.pos = new_pos]],
                  food |-> food1,
                  shared_memory |-> m.shared_memory,
                  food_scent |-> m.food_scent]

\* AllostaticAgent.step of agent id in world w, the softmax draw being
\* new_pos: the world afterwards.  (new_pos is ignored when the agent is
\* dead or dies.)
agent_step(w, id, new_pos) ==
    LET a == w.agent[id]
        u == update_internal_state(a, w.food)
        food1 == Eat(w.food, a.pos, u.intake)
    IN  IF ~a.is_alive THEN w
        ELSE IF ~u.agent.is_alive
        THEN [w EXCEPT !.agent[id] = u.agent, !.food = food1]
        ELSE LET m == manage_memory_and_scent([u.agent EXCEPT !.pos = new_pos],
                                              w.shared_memory, w.food_scent)
             IN  [agent |-> [w.agent EXCEPT ![id] = m.agent],
                  food |-> food1,
                  shared_memory |-> m.shared_memory,
                  food_scent |-> m.food_scent]

\* the draws choose_action can make in agent id's step in world w
step_draws(w, id) ==
    LET a == w.agent[id]
        u == update_internal_state(a, w.food)
    IN  IF a.is_alive /\ u.agent.is_alive
        THEN choose_action(u.agent, Eat(w.food, a.pos, u.intake),
                           w.shared_memory, w.food_scent)
        ELSE {a.pos}

\* the draws a behaviour of the model takes: the displacements of
\* DrawnMoves, among those choose_action can make
DrawnMoves == {<<0, 0>>, <<1, 0>>, <<0 - 1, 0>>}
Drawn(p, draws) == {c \in draws : <<c[1] - p[1], c[2] - p[2]>> \in DrawnMoves}

(***************************************************************************)
(* model.py, DualDriveModel                                                *)
(***************************************************************************)
\* (mutant) the multiplication without the putmask: small values linger
DecayNoFloor(field, percent) ==
    [c \in DOMAIN field |-> (field[c] * percent) \div UNIT]

\* np.multiply(field, decay, out=field); np.putmask(field, field < 0.05, 0)
Decay(field, percent) ==
    [c \in DOMAIN field |->
        LET v == (field[c] * percent) \div UNIT IN IF v < FLOOR THEN 0 ELSE v]

\* what DualDriveModel owns: the world, the active set, the grid occupancy
\* and the two counters
Engine == [agent |-> agent, food |-> food, shared_memory |-> shared_memory,
           food_scent |-> food_scent, agents |-> agents, grid |-> grid,
           dead_count |-> dead_count, steps |-> steps]

World == [agent |-> agent, food |-> food,
          shared_memory |-> shared_memory, food_scent |-> food_scent]

WorldOf(e) == [agent |-> e.agent, food |-> e.food,
               shared_memory |-> e.shared_memory, food_scent |-> e.food_scent]

\* (mutant) the decay of step() taken over the temperature field too, each
\* time the fields are written
TemperatureDecayed == model_temperature' = Decay(model_temperature, SCENT_DECAY)

\* no statement of step(), of drop_food or of AllostaticAgent assigns to
\* model.temperature or to a cell of it: agents.py:97 and 194 read it
TemperatureKept == model_temperature' = model_temperature

WorldIs(w) ==
    /\ TemperatureKept
    /\ agent' = w.agent
    /\ food' = w.food
    /\ shared_memory' = w.shared_memory
    /\ food_scent' = w.food_scent

EngineIs(e) ==
    /\ WorldIs(WorldOf(e))
    /\ agents' = e.agents
    /\ grid' = e.grid
    /\ dead_count' = e.dead_count
    /\ steps' = e.steps

Range(q) == {q[k] : k \in DOMAIN q}

\* (mutant) the list is taken while it is being changed, and one agent of
\* it is passed over
ShufflesSkipping(S) ==
    {q \in [1 .. (Cardinality(S) - 1) -> S] : \A i, j \in DOMAIN q : q[i] = q[j] => i = j}

\* all orders random.shuffle can leave the list in
RECURSIVE Shuffles(_)
Shuffles(S) ==
    IF S = {} THEN {<< >>}
    ELSE UNION {{<<e>> \o q : q \in Shuffles(S \ {e})} : e \in S}

\* (mutant) the active set rebuilt from all agents ever created, less those
\* that died in this tick: the dead of earlier ticks come back
CleanupRebuildsActive(e, dead) ==
    [e EXCEPT !.grid = @ \ Range(dead),
              !.agents = DOMAIN e.agent \ Range(dead),
              !.agent = [id \in DOMAIN @ |->
                            IF id \in Range(dead) THEN [@[id] EXCEPT !.pos = NoPos]
                            ELSE @[id]],
              !.dead_count = @ + Len(dead)]

\* (mutant) the dead leave the grid but stay in the active set
CleanupKeepsActive(e, dead) ==
    [e EXCEPT !.grid = @ \ Range(dead),
              !.agent = [id \in DOMAIN @ |->
                            IF id \in Range(dead) THEN [@[id] EXCEPT !.pos = NoPos]
                            ELSE @[id]],
              !.dead_count = @ + Len(dead)]

\* (mutant) the counter advances once per tick with deaths, not once per death
CleanupCountsOnce(e, dead) ==
    [e EXCEPT !.grid = @ \ Range(dead),
              !.agents = @ \ Range(dead),
              !.agent = [id \in DOMAIN @ |->
                            IF id \in Range(dead) THEN [@[id] EXCEPT !.pos = NoPos]
                            ELSE @[id]],
              !.dead_count = @ + (IF Len(dead) > 0 THEN 1 ELSE 0)]

\* step(), lines 110-114: grid.remove_agent (which also clears agent.pos),
\* agents.remove and the count, for every agent of the list dead
Cleanup(e, dead) ==
    [e EXCEPT !.grid = @ \ Range(dead),
              !.agents = @ \ Range(dead),
              !.agent = [id \in DOMAIN @ |->
                            IF id \in Range(dead) THEN [@[id] EXCEPT !.pos = NoPos]
                            ELSE @[id]],
              !.dead_count = @ + Len(dead)]

\* step(), lines 116-123, and the step counter Mesa advances around step()
DecayFields(e) ==
    [e EXCEPT !.food_scent = Decay(@, SCENT_DECAY),
              !.shared_memory = Decay(@, MEMORY_DECAY),
              !.steps = @ + 1]

\* (mutant) no lower bound checked: a negative index counts from the end of
\* the array
drop_food_wraps(f, x, y, amount) ==
    IF x < GRID_WIDTH /\ y < GRID_HEIGHT
    THEN [f EXCEPT ![<<x % GRID_WIDTH, y % GRID_HEIGHT>>] = @ + amount]
    ELSE f

\* model.drop_food
drop_food(f, x, y, amount) ==
    IF 0 <= x /\ x < GRID_WIDTH /\ 0 <= y /\ y < GRID_HEIGHT
    THEN [f EXCEPT ![<<x, y>>] = @ + amount]
    ELSE f

(***************************************************************************)
(* DualDriveModel.__init__                                                 *)
(***************************************************************************)
\* the engine as constructed: the food patch (cx, cy, amp, sigma), agent id
\* born on cell place[id] with energy energy[id]
NewEngine(patch, place, energy) ==
    [agent |-> [id \in AgentIds |-> NewAgent(energy[id], place[id])],
     food |-> generate_food_field(GRID_WIDTH, GRID_HEIGHT,
                                  patch[1], patch[2], patch[3], patch[4]),
     shared_memory |-> [c \in Cells |-> 0],
     food_scent |-> [c \in Cells |-> 0],
     agents |-> AgentIds,
     grid |-> AgentIds,
     dead_count |-> 0,
     steps |-> 0]

(***************************************************************************)
(* The engine after n ticks in each of which every agent drew "stay" (the  *)
(* agents stepped in the order given): the running simulations the         *)
(* behaviours below start from.                                            *)
(***************************************************************************)
RECURSIVE StaySweep(_, _)
StaySweep(w, order) ==
    IF order = << >> THEN w
    ELSE StaySweep(agent_step(w, Head(order), w.agent[Head(order)].pos), Tail(order))

RECURSIVE SeqOf(_)
SeqOf(S) == IF S = {} THEN << >>
            ELSE LET m == CHOOSE m \in S : \A n \in S : m <= n
                 IN  <<m>> \o SeqOf(S \ {m})

StayTick(e) ==
    LET w == StaySweep(WorldOf(e), SeqOf(e.agents))
        dead == SeqOf({id \in e.agents : ~w.agent[id].is_alive})
    IN  DecayFields(Cleanup([e EXCEPT !.agent = w.agent, !.food = w.food,
                                      !.shared_memory = w.shared_memory,
                                      !.food_scent = w.food_scent], dead))

\* (comparing the fields makes TLC compute them tick by tick instead of
\* nesting n unevaluated ticks)
Computed(e) ==
    /\ e.agent = e.agent
    /\ e.food = e.food
    /\ e.shared_memory = e.shared_memory
    /\ e.food_scent = e.food_scent

RECURSIVE StayTicks(_, _)
StayTicks(n, e) ==
    IF n = 0 \/ ~Computed(e) THEN e
    ELSE IF n = 1 THEN StayTick(e)
    ELSE StayTicks(n - (n \div 2), StayTicks(n \div 2, e))

\* the number of ticks an agent born with INIT_ENERGY_MIN lives without food
LateTicks == INIT_ENERGY_MIN \div METABOLISM

\* the inputs of the behaviours
Ages == {0, LateTicks}
Patches == {<<PATCH_MARGIN, PATCH_MARGIN, 3000, 40>>}
StartCells == {<<0, 2>>}
BirthEnergies == {INIT_ENERGY_MIN, INIT_ENERGY_MAX}
\* the bodies posted to /api/action/drop_food: x and y in tenths, amount in
\* hundredths
DropRequests ==
    { <<0, 20, 1500>>, <<0, 20, 0 - 1500>>,
      <<10 * GRID_WIDTH, 20, 1500>>, <<0 - 10, 20, 1500>> }

\* (mutant) the with-block entered without waiting for the lock
LockIgnored == TRUE

\* shared.simulation_lock.acquire() returns when the lock is free
LockFree == simulation_lock = NONE

TicksRun == IF steps >= LateTicks THEN steps - LateTicks ELSE steps

NoView == [kind |-> NONE]

\* no second model
NoTwin == [steps |-> 0 - 1]

\* no method of an agent has been called directly
NoCall == [method |-> NONE]

\* the history starts: a tick begins with the agents on the cells of tick_food0
TickCells == {agent[id].pos : id \in agents}

\* all the food of the field f, added up row by row
TotalFood(f) == Sum([x \in Xs |-> Sum([y \in Ys |-> f[<<x, y>>]], Ys)], Xs)

\* the energy of the agents of ids
TotalEnergy(ids) == Sum([id \in AgentIds |-> agent[id].E_int], ids)

\* the history starts: all the food there is and the energy of the agents
\* that are alive
FoodAndEnergy == TotalFood(food) + TotalEnergy({id \in AgentIds : agent[id].is_alive})

\* the history of meals goes on: the agents of ids have made a step that
\* took the agents from ag0 to ag1 (a survivor's intake is what its energy
\* gained over the metabolism cost); the count stops one past the duration
MealClock(ids, ag0, ag1) ==
    [id \in AgentIds |->
        IF id \notin ids \/ ~ag0[id].is_alive \/ ~ag1[id].is_alive THEN since_meal[id]
        ELSE IF ag1[id].E_int - ag0[id].E_int + METABOLISM > SIGNAL_INTAKE THEN 1
        ELSE IF since_meal[id] = 0 THEN 0
        ELSE Min(since_meal[id] + 1, FOOD_SIGNAL_DURATION + 1)]

\* the history of meals starts: an agent set up with a running timer had its
\* meal as many ticks ago as the timer has counted down
MealClockStart ==
    [id \in AgentIds |->
        IF agent[id].food_signal_timer = 0 THEN 0
        ELSE FOOD_SIGNAL_DURATION - agent[id].food_signal_timer]

\* the engines DualDriveModel() can construct
FreshEngines ==
    {NewEngine(patch, place, energy) :
        patch \in Patches, place \in [AgentIds -> StartCells],
        energy \in [AgentIds -> BirthEnergies]}

InitEngine(e) ==
    /\ model_temperature = temperature
    /\ agent = e.agent
    /\ food = e.food
    /\ shared_memory = e.shared_memory
    /\ food_scent = e.food_scent
    /\ agents = e.agents
    /\ grid = e.grid
    /\ dead_count = e.dead_count
    /\ steps = e.steps

Init ==
    /\ tick_food0 = EmptyMap
    /\ \E age \in Ages, fresh \in FreshEngines :
          \E e \in {StayTicks(age, fresh)} : InitEngine(e)
    /\ ui_pc = "idle"
    /\ todo = << >>
    /\ dead_agents = << >>
    /\ simulation_lock = NONE
    /\ http_pc = "idle"
    /\ http_response = NoView
    /\ dash_view = NoView
    /\ eaten = EmptyMap
    /\ tick_alive0 = {}
    /\ drops = 0
    /\ neg_drop = FALSE
    /\ tick_pos0 = EmptyMap
    /\ tick_total0 = 0
    /\ since_meal = MealClockStart
    /\ call = NoCall
    /\ twin = NoTwin

(***************************************************************************)
(* app.py: on_step and the play loop, each running model.step() inside     *)
(* `with shared.simulation_lock`                                           *)
(***************************************************************************)
\* the lock is taken; step(), lines 95-98
StartTick ==
    /\ ui_pc = "idle"
    /\ LockFree
    /\ TicksRun < MaxTicks
    /\ simulation_lock' = "ui"
    /\ ui_pc' = "tick"
    /\ todo' \in Shuffles(agents)
    /\ dead_agents' = << >>
    /\ tick_food0' = [c \in TickCells |-> food[c]]
    /\ eaten' = [c \in TickCells |-> 0]
    /\ tick_alive0' = {id \in AgentIds : agent[id].is_alive}
    /\ tick_pos0' = [id \in agents |-> agent[id].pos]
    /\ tick_total0' = FoodAndEnergy
    /\ UNCHANGED <<engine_vars, http_pc, http_response, dash_view, drops, neg_drop,
                   call, twin, since_meal>>

\* step(), lines 99-108: one iteration of the sweep
AgentStep ==
    /\ ui_pc = "tick"
    /\ todo # << >>
    /\ LET id == Head(todo)
           p == agent[id].pos
       IN  \E new_pos \in Drawn(p, step_draws(World, id)) :
             LET w == agent_step(World, id, new_pos)
             IN  /\ WorldIs(w)
                 /\ since_meal' = MealClock({id}, agent, w.agent)
                 /\ dead_agents' = IF agent[id].is_alive /\ ~w.agent[id].is_alive
                                   THEN Append(dead_agents, id)
                                   ELSE dead_agents
                 /\ eaten' = [eaten EXCEPT
                                ![p] = @ + update_internal_state(agent[id], food).intake]
    /\ todo' = Tail(todo)
    /\ UNCHANGED <<agents, grid, dead_count, steps, ui_pc, simulation_lock,
                   http_pc, http_response, dash_view, tick_food0, tick_alive0,
                   drops, neg_drop, tick_pos0, tick_total0, call, twin>>

\* step(), lines 110-126; the with-block ends and the lock is released
FinishTick ==
    /\ ui_pc = "tick"
    /\ todo = << >>
    /\ EngineIs(DecayFields(Cleanup(Engine, dead_agents)))
    /\ ui_pc' = "idle"
    /\ dead_agents' = << >>
    /\ simulation_lock' = NONE
    /\ tick_total0' = 0
    /\ UNCHANGED <<todo, http_pc, http_response, dash_view, tick_food0, eaten,
                   tick_alive0, drops, neg_drop, tick_pos0, since_meal, call, twin>>

(***************************************************************************)
(* api_server.py: each handler computes its reply inside                   *)
(* `with shared.simulation_lock` and returns it after the block            *)
(***************************************************************************)
\* (mutant) the snapshots taken of every agent ever created, the dead with
\* their last energy included
StateViewOfAllCreated(e) ==
    LET alive_agents == DOMAIN e.agent
    IN  [kind |-> "state",
         step |-> e.steps,
         agents_alive |-> Cardinality(alive_agents),
         agents_dead |-> e.dead_count,
         agents_details |->
             {[id |-> id, x |-> e.agent[id].pos[1], y |-> e.agent[id].pos[2],
               energy |-> e.agent[id].E_int, temp |-> e.agent[id].T_int,
               valence |-> e.agent[id].valence_integrated] : id \in alive_agents},
         food_patches_summary |->
             {<<c[1], c[2], e.food[c]>> : c \in {d \in Cells : e.food[d] > 10 * UNIT}}]

\* the state dict of get_state
StateView(e) ==
    LET alive_agents == {id \in e.agents : e.agent[id].is_alive}
    IN  [kind |-> "state",
         step |-> e.steps,
         agents_alive |-> Cardinality(alive_agents),
         agents_dead |-> e.dead_count,
         agents_details |->
             {[id |-> id, x |-> e.agent[id].pos[1], y |-> e.agent[id].pos[2],
               energy |-> e.agent[id].E_int, temp |-> e.agent[id].T_int,
               valence |-> e.agent[id].valence_integrated] : id \in alive_agents},
         food_patches_summary |->
             {<<c[1], c[2], e.food[c]>> : c \in {d \in Cells : e.food[d] > 10 * UNIT}}]

\* the reply of get_heatmap
HeatmapView(e) ==
    [kind |-> "heatmap",
     heatmap |-> {<<c[1], c[2], e.food_scent[c]>> :
                     c \in {d \in Cells : e.food_scent[d] > EAT_EPSILON}},
     dims |-> <<GRID_WIDTH, GRID_HEIGHT>>]

\* the reply of get_description: the number alive and their mean temperature
DescriptionView(e) ==
    LET alive == {id \in e.agents : e.agent[id].is_alive}
    IN  [kind |-> "description",
         alive |-> Cardinality(alive),
         avg_temp |-> IF alive = {} THEN NONE
                      ELSE <<Sum([id \in alive |-> e.agent[id].T_int], alive)
                             \div Cardinality(alive)>>]

HttpEnter(handler) ==
    /\ http_pc = "idle"
    /\ LockFree
    /\ simulation_lock' = "http"
    /\ http_pc' = handler

get_state ==
    /\ HttpEnter("get_state")
    /\ http_response' = StateView(Engine)
    /\ UNCHANGED <<engine_vars, tick_vars, dash_view, hist_vars, call, twin>>

get_heatmap ==
    /\ HttpEnter("get_heatmap")
    /\ http_response' = HeatmapView(Engine)
    /\ UNCHANGED <<engine_vars, tick_vars, dash_view, hist_vars, call, twin>>

get_description ==
    /\ HttpEnter("get_description")
    /\ http_response' = DescriptionView(Engine)
    /\ UNCHANGED <<engine_vars, tick_vars, dash_view, hist_vars, call, twin>>

\* int() of a number given in tenths: truncation towards zero
IntOf(t) == IF t >= 0 THEN t \div 10 ELSE 0 - ((0 - t) \div 10)

InBounds(x, y) == 0 <= x /\ x < GRID_WIDTH /\ 0 <= y /\ y < GRID_HEIGHT

\* (mutant) the handler answers for the bounds check of the engine: an
\* out-of-bounds deposit is refused
DropReplyChecked(req) ==
    IF InBounds(IntOf(req[1]), IntOf(req[2]))
    THEN [kind |-> "drop", code |-> 200, status |-> "success", request |-> req]
    ELSE [kind |-> "drop", code |-> 400, status |-> "error", request |-> req]

\* line 112: the reply once model.drop_food has returned
DropReply(req) ==
    [kind |-> "drop", code |-> 200, status |-> "success", request |-> req]

\* the drop_food handler, from the lock to the call of model.drop_food, for
\* a body whose x, y and amount are numbers
DropFood ==
    /\ HttpEnter("drop_food")
    /\ \E req \in DropRequests :
         LET x == IntOf(req[1])
             y == IntOf(req[2])
         IN  /\ InBounds(x, y) => drops < MaxDrops
             /\ food' = drop_food(food, x, y, req[3])
             /\ drops' = IF InBounds(x, y) THEN drops + 1 ELSE drops
             /\ neg_drop' = (neg_drop \/ (InBounds(x, y) /\ req[3] < 0))
             /\ http_response' = DropReply(req)
    /\ TemperatureKept
    /\ UNCHANGED <<agent, agents, grid, food_scent, shared_memory, dead_count, steps,
                   tick_vars, dash_view, tick_food0, eaten, tick_alive0, tick_pos0,
                   tick_total0, call, twin, since_meal>>

\* the with-block ends: the lock is released and the reply is sent
HttpReturn ==
    /\ http_pc \notin {"idle", "rejected"}
    /\ http_pc' = "idle"
    /\ simulation_lock' = NONE
    /\ http_response' = NoView
    /\ UNCHANGED <<engine_vars, tick_vars, dash_view, hist_vars, call, twin>>

(***************************************************************************)
(* api_server.py, drop_food: the bodies the handler does not act on.  A    *)
(* value of a body is a number, null (as is a key the body lacks: data.get *)
(* returns None) or a string that is no numeral                            *)
(***************************************************************************)
Number(n) == [type |-> "number", value |-> n]
Null == [type |-> "null", value |-> 0]
Text == [type |-> "string", value |-> 0]

AllNumbers(body) ==
    body.x.type = "number" /\ body.y.type = "number" /\ body.amount.type = "number"

\* `not data`: the body {}
EmptyBody == [x |-> Null, y |-> Null, amount |-> Null]

\* lines 96-97 and 103-104
RejectedBodies ==
    { EmptyBody,
      [x |-> Null, y |-> Number(20), amount |-> Number(1500)],
      [x |-> Number(0), y |-> Null, amount |-> Number(1500)] }

\* int(x), int(y) or float(amount) raises
FaultBodies ==
    { [x |-> Text, y |-> Number(20), amount |-> Number(1500)],
      [x |-> Number(0), y |-> Number(20), amount |-> Text],
      [x |-> Number(0), y |-> Number(20), amount |-> Null] }

\* lines 95-104: the reply 400, sent without the lock being asked for
DropFoodRejected ==
    /\ http_pc = "idle"
    /\ http_pc' = "rejected"
    /\ \E body \in RejectedBodies :
          http_response' =
              [kind |-> "drop", code |-> 400,
               error |-> IF body = EmptyBody THEN "Invalid JSON"
                         ELSE "Missing x or y coordinates",
               body |-> body]
    /\ UNCHANGED <<engine_vars, tick_vars, simulation_lock, dash_view, hist_vars,
                   call, twin>>

RejectedReturn ==
    /\ http_pc = "rejected"
    /\ http_pc' = "idle"
    /\ http_response' = NoView
    /\ UNCHANGED <<engine_vars, tick_vars, simulation_lock, dash_view, hist_vars,
                   call, twin>>

\* line 110 raises inside the with-block: nothing is deposited, the block
\* is left (HttpReturn) and Flask answers 500
DropFoodFault ==
    /\ HttpEnter("drop_food_fault")
    /\ \E body \in FaultBodies :
          http_response' = [kind |-> "drop", code |-> 500, error |-> "exception",
                            body |-> body]
    /\ UNCHANGED <<engine_vars, tick_vars, dash_view, hist_vars, call, twin>>

(***************************************************************************)
(* app.py: on_reset, and the render of Page                                *)
(***************************************************************************)
ResetBegin ==
    /\ ui_pc = "idle"
    /\ LockFree
    /\ simulation_lock' = "ui"
    /\ ui_pc' = "reset"
    /\ UNCHANGED <<engine_vars, todo, dead_agents, http_pc, http_response,
                   dash_view, hist_vars, call, twin>>

\* shared.simulation_model = DualDriveModel(); the lock is released
ResetInstall ==
    /\ ui_pc = "reset"
    /\ \E fresh \in FreshEngines : EngineIs(fresh)
    /\ ui_pc' = "idle"
    /\ simulation_lock' = NONE
    /\ tick_food0' = EmptyMap
    /\ eaten' = EmptyMap
    /\ tick_alive0' = {}
    /\ neg_drop' = FALSE
    /\ tick_pos0' = EmptyMap
    /\ tick_total0' = 0
    /\ since_meal' = [id \in AgentIds |-> 0]
    /\ UNCHANGED <<todo, dead_agents, http_pc, http_response, dash_view, drops, call, twin>>

\* Page, lines 273-287: the statistics are read from the model, no lock taken
Render ==
    /\ dash_view = NoView
    /\ dash_view' = [kind |-> "stats",
                     n_alive |-> Cardinality({id \in agents : agent[id].is_alive}),
                     dead_count |-> dead_count]
    /\ UNCHANGED <<engine_vars, tick_vars, simulation_lock, http_pc, http_response,
                   hist_vars, call, twin>>

RenderDone ==
    /\ dash_view # NoView
    /\ dash_view' = NoView
    /\ UNCHANGED <<engine_vars, tick_vars, simulation_lock, http_pc, http_response,
                   hist_vars, call, twin>>

Tick == StartTick \/ AgentStep \/ FinishTick
Http == get_state \/ get_heatmap \/ get_description \/ DropFood \/ HttpReturn

\* one simulation instance, stepped by the dashboard and served over HTTP
Next == Tick \/ Http

Spec == Init /\ [][Next]_vars

\* the application with its Reset button: the instance can be replaced
NextApp == Next \/ ResetBegin \/ ResetInstall

SpecApp == Init /\ [][NextApp]_vars

\* one instance, with the dashboard rendering it
NextDash == Next \/ Render \/ RenderDone

SpecDash == Init /\ [][NextDash]_vars

\* one instance, stepped by the dashboard and served over HTTP, with every
\* kind of body posted to drop_food
NextApi == Next \/ DropFoodRejected \/ RejectedReturn \/ DropFoodFault

SpecApi == Init /\ [][NextApi]_vars

(***************************************************************************)
(* The methods of one agent called directly, as a test of the class calls  *)
(* them, on an agent and a cell set up for the call                        *)
(***************************************************************************)
MaxCalls == 2

\* the cell the agent under test stands on: the centre of the grid
UnitCell == <<GRID_WIDTH \div 2, GRID_HEIGHT \div 2>>
\* the agent the methods are called on
UnitIds == {1}
UnitEnergies ==
    {0, METABOLISM, METABOLISM + 1, CRITICAL_ENERGY - UNIT, MAX_ENERGY - 5 * UNIT}
UnitFoods ==
    {0, EAT_EPSILON \div 2, EAT_EPSILON, EAT_EPSILON + 1, METABOLISM, METABOLISM + 1,
     20 * UNIT}
UnitTimers == {0, FOOD_SIGNAL_DURATION \div 3}
UnitTraces == {0, 3 * UNIT}

\* a model whose cell UnitCell holds f food and a trace tr of scent and of
\* shared memory, agent 1 on it with energy e and signal timer t
UnitEngine(e, f, t, tr) ==
    LET only(v) == [c \in Cells |-> IF c = UnitCell THEN v ELSE 0]
    IN  [agent |-> [id \in AgentIds |->
                      IF id \in UnitIds
                      THEN [NewAgent(e, UnitCell) EXCEPT !.food_signal_timer = t]
                      ELSE NewAgent(INIT_ENERGY_MAX, <<0, 0>>)],
         food |-> only(f),
         shared_memory |-> only(tr),
         food_scent |-> only(tr),
         agents |-> AgentIds,
         grid |-> AgentIds,
         dead_count |-> 0,
         steps |-> 0]

InitUnit ==
    /\ \E e \in UnitEnergies, f \in UnitFoods, t \in UnitTimers, tr \in UnitTraces :
          InitEngine(UnitEngine(e, f, t, tr))
    /\ ui_pc = "idle"
    /\ todo = << >>
    /\ dead_agents = << >>
    /\ simulation_lock = NONE
    /\ http_pc = "idle"
    /\ http_response = NoView
    /\ dash_view = NoView
    /\ tick_food0 = EmptyMap
    /\ eaten = EmptyMap
    /\ tick_alive0 = {}
    /\ drops = 0
    /\ neg_drop = FALSE
    /\ tick_pos0 = EmptyMap
    /\ tick_total0 = 0
    /\ since_meal = MealClockStart
    /\ call = NoCall
    /\ twin = NoTwin

CallsMade == IF call = NoCall THEN 0 ELSE call.n

\* the record of a call of method on agent id that returned ret (NoPos for
\* None)
Called(method, id, ret) ==
    [method |-> method, id |-> id, n |-> CallsMade + 1, before |-> agent[id],
     ret |-> ret]

\* agent.step()
CallStep ==
    /\ CallsMade < MaxCalls
    /\ \E id \in UnitIds :
          /\ \E new_pos \in Drawn(agent[id].pos, step_draws(World, id)) :
                LET w == agent_step(World, id, new_pos)
                IN  WorldIs(w) /\ since_meal' = MealClock({id}, agent, w.agent)
          /\ call' = Called("step", id, NoPos)
    /\ UNCHANGED <<agents, grid, dead_count, steps, tick_vars, simulation_lock,
                   http_pc, http_response, dash_view, tick_hist, twin>>

\* agent.update_internal_state()
CallUpdate ==
    /\ CallsMade < MaxCalls
    /\ \E id \in UnitIds :
          LET u == update_internal_state(agent[id], food)
          IN  /\ agent' = [agent EXCEPT ![id] = u.agent]
              /\ food' = IF u.intake = 0 THEN food
                         ELSE Eat(food, agent[id].pos, u.intake)
              /\ call' = Called("update_internal_state", id, NoPos)
              /\ since_meal' = MealClock({id}, agent, [agent EXCEPT ![id] = u.agent])
    /\ TemperatureKept
    /\ UNCHANGED <<agents, grid, food_scent, shared_memory, dead_count, steps,
                   tick_vars, simulation_lock, http_pc, http_response, dash_view,
                   tick_hist, twin>>

\* agent.choose_action(): it returns a cell and changes nothing
CallChoose ==
    /\ CallsMade < MaxCalls
    /\ \E id \in UnitIds :
          \E ret \in choose_action(agent[id], food, shared_memory, food_scent) :
             call' = Called("choose_action", id, ret)
    /\ UNCHANGED <<engine_vars, tick_vars, simulation_lock, http_pc, http_response,
                   dash_view, hist_vars, twin>>

\* agent.manage_memory_and_scent()
CallManage ==
    /\ CallsMade < MaxCalls
    /\ \E id \in UnitIds :
          LET m == manage_memory_and_scent(agent[id], shared_memory, food_scent)
          IN  /\ agent' = [agent EXCEPT ![id] = m.agent]
              /\ shared_memory' = m.shared_memory
              /\ food_scent' = m.food_scent
              /\ call' = Called("manage_memory_and_scent", id, NoPos)
    /\ TemperatureKept
    /\ UNCHANGED <<agents, grid, food, dead_count, steps, tick_vars, simulation_lock,
                   http_pc, http_response, dash_view, hist_vars, twin>>

NextUnit == CallStep \/ CallUpdate \/ CallChoose \/ CallManage

SpecUnit == InitUnit /\ [][NextUnit]_vars

(***************************************************************************)
(* A long run: model.step() tick after tick, the softmax draws being those *)
(* that walk each agent over cells it has not been on                      *)
(***************************************************************************)
WalkExtra == 2

\* the ticks of the walk: one batch of the visit-map cleanup and a little more
WalkTicks == CLEANUP_EVERY + WalkExtra

\* the next cell of the walk: east along the even rows, west along the odd
\* ones, one row up at the end of a row
Snake(p) ==
    IF p[2] % 2 = 0
    THEN IF p[1] < GRID_WIDTH - 1 THEN <<p[1] + 1, p[2]>> ELSE <<p[1], p[2] + 1>>
    ELSE IF p[1] > 0 THEN <<p[1] - 1, p[2]>> ELSE <<p[1], p[2] + 1>>

\* the sweep of step() over order, every agent drawing the next cell of its
\* walk
RECURSIVE WalkSweep(_, _)
WalkSweep(w, order) ==
    IF order = << >> THEN w
    ELSE WalkSweep(agent_step(w, Head(order), Snake(w.agent[Head(order)].pos)),
                   Tail(order))

\* choose_action can make every draw of that sweep
RECURSIVE WalkDrawn(_, _)
WalkDrawn(w, order) ==
    IF order = << >> THEN TRUE
    ELSE /\ Snake(w.agent[Head(order)].pos) \in step_draws(w, Head(order))
         /\ WalkDrawn(agent_step(w, Head(order), Snake(w.agent[Head(order)].pos)),
                      Tail(order))

\* where the walks start: far enough apart never to cross
WalkStarts == {[id \in AgentIds |-> <<x, 6 * (id - 1)>>] : x \in {0, 1, 2}}

WalkEngines ==
    {NewEngine(patch, place, energy) :
        patch \in Patches, place \in WalkStarts, energy \in [AgentIds -> BirthEnergies]}

InitWalk ==
    /\ \E e \in WalkEngines : InitEngine(e)
    /\ ui_pc = "idle"
    /\ todo = << >>
    /\ dead_agents = << >>
    /\ simulation_lock = NONE
    /\ http_pc = "idle"
    /\ http_response = NoView
    /\ dash_view = NoView
    /\ tick_food0 = EmptyMap
    /\ eaten = EmptyMap
    /\ tick_alive0 = {}
    /\ drops = 0
    /\ neg_drop = FALSE
    /\ tick_pos0 = EmptyMap
    /\ tick_total0 = 0
    /\ since_meal = MealClockStart
    /\ call = NoCall
    /\ twin = NoTwin

\* one model.step(), under the lock from its first line to its last
WalkTick ==
    /\ steps < WalkTicks
    /\ LockFree
    /\ \E order \in Shuffles(agents) :
          /\ WalkDrawn(World, order)
          /\ LET w == WalkSweep(World, order)
                 dead == SeqOf({id \in agents : ~w.agent[id].is_alive})
             IN  /\ EngineIs(DecayFields(Cleanup(
                        [Engine EXCEPT !.agent = w.agent, !.food = w.food,
                                       !.shared_memory = w.shared_memory,
                                       !.food_scent = w.food_scent], dead)))
                 /\ since_meal' = MealClock(agents, agent, w.agent)
    /\ UNCHANGED <<tick_vars, simulation_lock, http_pc, http_response, dash_view,
                   tick_hist, call, twin>>

NextWalk == WalkTick

SpecWalk == InitWalk /\ [][NextWalk]_vars

(***************************************************************************)
(* The same long run, observed inside model.step(): between the sweep over *)
(* the agents and the cleanup and decay that end the tick                  *)
(***************************************************************************)
\* step(), lines 95-108: the lock is taken and every agent of the shuffled
\* list is stepped, each drawing the next cell of its walk
TrailSweep ==
    /\ ui_pc = "idle"
    /\ LockFree
    /\ steps < WalkTicks
    /\ \E order \in Shuffles(agents) :
          /\ WalkDrawn(World, order)
          /\ LET w == WalkSweep(World, order)
                 died(id) == agent[id].is_alive /\ ~w.agent[id].is_alive
             IN  /\ WorldIs(w)
                 /\ since_meal' = MealClock(agents, agent, w.agent)
                 /\ dead_agents' = SelectSeq(order, died)
                 /\ eaten' = [c \in TickCells |-> food[c] - w.food[c]]
    /\ simulation_lock' = "ui"
    /\ ui_pc' = "tick"
    /\ todo' = << >>
    /\ tick_food0' = [c \in TickCells |-> food[c]]
    /\ tick_alive0' = {id \in AgentIds : agent[id].is_alive}
    /\ tick_pos0' = [id \in agents |-> agent[id].pos]
    /\ tick_total0' = FoodAndEnergy
    /\ UNCHANGED <<agents, grid, dead_count, steps, http_pc, http_response,
                   dash_view, drops, neg_drop, call, twin>>

NextTrail == TrailSweep \/ FinishTick

SpecTrail == InitWalk /\ [][NextTrail]_vars

(***************************************************************************)
(* Two models constructed with the same seed and driven by the same calls. *)
(* What self.random draws (the placement, the shuffle) is the same in      *)
(* both; what the global np.random draws (the food patches, the birth      *)
(* energies, the softmax sample) does not depend on the seed               *)
(***************************************************************************)
MaxSeedTicks == 1

Move(p, d) == <<p[1] + d[1], p[2] + d[2]>>

\* the sweep of step() over order, agent id drawing the displacement d[id]
RECURSIVE DrawnSweep(_, _, _)
DrawnSweep(w, order, d) ==
    IF order = << >> THEN w
    ELSE LET id == Head(order)
             to == IF w.agent[id].is_alive THEN Move(w.agent[id].pos, d[id])
                   ELSE w.agent[id].pos
         IN  DrawnSweep(agent_step(w, id, to), Tail(order), d)

\* choose_action can make every draw of that sweep
RECURSIVE DrawsMade(_, _, _)
DrawsMade(w, order, d) ==
    IF order = << >> THEN TRUE
    ELSE LET id == Head(order)
             to == Move(w.agent[id].pos, d[id])
             w1 == agent_step(w, id, to)
         IN  /\ to \in step_draws(w, id)
             /\ DrawsMade(IF w1.agent[id].is_alive THEN w1
                          ELSE agent_step(w, id, w.agent[id].pos), Tail(order), d)

\* model.step() of engine e, its shuffle giving order and its draws d
drawn_step(e, order, d) ==
    LET w == DrawnSweep(WorldOf(e), order, d)
        dead == SeqOf({id \in e.agents : ~w.agent[id].is_alive})
    IN  DecayFields(Cleanup([e EXCEPT !.agent = w.agent, !.food = w.food,
                                      !.shared_memory = w.shared_memory,
                                      !.food_scent = w.food_scent], dead))

InitSeed ==
    /\ \E place \in [AgentIds -> StartCells] :
          \E patch1 \in Patches, patch2 \in Patches,
             energy1 \in [AgentIds -> BirthEnergies],
             energy2 \in [AgentIds -> BirthEnergies] :
             /\ InitEngine(NewEngine(patch1, place, energy1))
             /\ twin = NewEngine(patch2, place, energy2)
    /\ ui_pc = "idle"
    /\ todo = << >>
    /\ dead_agents = << >>
    /\ simulation_lock = NONE
    /\ http_pc = "idle"
    /\ http_response = NoView
    /\ dash_view = NoView
    /\ tick_food0 = EmptyMap
    /\ eaten = EmptyMap
    /\ tick_alive0 = {}
    /\ drops = 0
    /\ neg_drop = FALSE
    /\ tick_pos0 = EmptyMap
    /\ tick_total0 = 0
    /\ since_meal = MealClockStart
    /\ call = NoCall

\* advance() on both
SeedTick ==
    /\ steps < MaxSeedTicks
    /\ \E order1 \in Shuffles(agents), order2 \in Shuffles(twin.agents),
          d1 \in [AgentIds -> DrawnMoves], d2 \in [AgentIds -> DrawnMoves] :
          /\ agents = twin.agents => order1 = order2
          /\ DrawsMade(World, order1, d1)
          /\ DrawsMade(WorldOf(twin), order2, d2)
          /\ EngineIs(drawn_step(Engine, order1, d1))
          /\ since_meal' = MealClock(agents, agent, drawn_step(Engine, order1, d1).agent)
          /\ twin' = drawn_step(twin, order2, d2)
    /\ UNCHANGED <<tick_vars, simulation_lock, http_pc, http_response, dash_view,
                   tick_hist, call>>

\* deposit_food(x, y, amount) on both
SeedDrop ==
    /\ drops < MaxDrops
    /\ \E req \in {r \in DropRequests : InBounds(IntOf(r[1]), IntOf(r[2])) /\ r[3] > 0} :
          /\ food' = drop_food(food, IntOf(req[1]), IntOf(req[2]), req[3])
          /\ twin' = [twin EXCEPT
                         !.food = drop_food(@, IntOf(req[1]), IntOf(req[2]), req[3])]
    /\ drops' = drops + 1
    /\ TemperatureKept
    /\ UNCHANGED <<agent, agents, grid, food_scent, shared_memory, dead_count, steps,
                   tick_vars, simulation_lock, http_pc, http_response, dash_view,
                   tick_food0, eaten, tick_alive0, neg_drop, tick_pos0, tick_total0,
                   call, since_meal>>

NextSeed == SeedTick \/ SeedDrop

SpecSeed == InitSeed /\ [][NextSeed]_vars

(***************************************************************************)
(* Two runs of one model that differ in nothing but the private visit map  *)
(* of one agent and its cleanup counter, and in which the shuffle and the  *)
(* softmax samples come out the same                                       *)
(***************************************************************************)
MaxVisitTicks == 2

\* the other map and counter: entries above and below the floor, one tick
\* before the cleanup
OtherVisits ==
    { [visits |-> [c \in {<<0, 2>>, <<1, 2>>} |-> IF c = <<0, 2>> THEN 3 * UNIT ELSE FLOOR - 1],
       visit_cleanup_counter |-> CLEANUP_EVERY - 1],
      [visits |-> [c \in {<<1, 2>>} |-> 9 * UNIT],
       visit_cleanup_counter |-> 1] }

InitVisits ==
    /\ \E fresh \in FreshEngines, who \in AgentIds, other \in OtherVisits :
          /\ InitEngine(fresh)
          /\ twin = [fresh EXCEPT
                        !.agent[who].visits = other.visits,
                        !.agent[who].visit_cleanup_counter = other.visit_cleanup_counter]
    /\ ui_pc = "idle"
    /\ todo = << >>
    /\ dead_agents = << >>
    /\ simulation_lock = NONE
    /\ http_pc = "idle"
    /\ http_response = NoView
    /\ dash_view = NoView
    /\ tick_food0 = EmptyMap
    /\ eaten = EmptyMap
    /\ tick_alive0 = {}
    /\ drops = 0
    /\ neg_drop = FALSE
    /\ tick_pos0 = EmptyMap
    /\ tick_total0 = 0
    /\ since_meal = MealClockStart
    /\ call = NoCall

\* model.step() in both runs: the same shuffle, the same sample for every
\* agent
VisitsTick ==
    /\ steps < MaxVisitTicks
    /\ \E order \in Shuffles(agents), d \in [AgentIds -> DrawnMoves] :
          /\ DrawsMade(World, order, d)
          /\ DrawsMade(WorldOf(twin), order, d)
          /\ EngineIs(drawn_step(Engine, order, d))
          /\ since_meal' = MealClock(agents, agent, drawn_step(Engine, order, d).agent)
          /\ twin' = drawn_step(twin, order, d)
    /\ UNCHANGED <<tick_vars, simulation_lock, http_pc, http_response, dash_view,
                   tick_hist, call>>

NextVisits == VisitsTick \/ SeedDrop

SpecVisits == InitVisits /\ [][NextVisits]_vars

(***************************************************************************)
(* app.py, Page.run_loop: the play loop.  The behaviours start in a        *)
(* running simulation, a few ticks before the agents starve, with the loop *)
(* playing; every agent draws "stay", so that the only food an agent finds *)
(* is what drop_food puts on its cell.                                     *)
(***************************************************************************)
\* the ticks an agent born with INIT_ENERGY_MIN has left when the loop starts
PlayLeft == 2

\* the energies random.uniform(INIT_ENERGY_MIN, INIT_ENERGY_MAX) gave at birth
PlayEnergies == {INIT_ENERGY_MIN, INIT_ENERGY_MIN + UNIT}

\* the cell rx, ry of the agents: a corner, out of reach of the food patch
PlayCells == {<<0, 0>>}

PlayEngines ==
    {NewEngine(patch, place, energy) :
        patch \in Patches, place \in [AgentIds -> PlayCells],
        energy \in [AgentIds -> PlayEnergies]}

InitPlay ==
    /\ \E fresh \in PlayEngines :
          \E e \in {StayTicks(LateTicks - PlayLeft, fresh)} : InitEngine(e)
    /\ ui_pc = "playing"
    /\ todo = << >>
    /\ dead_agents = << >>
    /\ simulation_lock = NONE
    /\ http_pc = "idle"
    /\ http_response = NoView
    /\ dash_view = NoView
    /\ tick_food0 = EmptyMap
    /\ eaten = EmptyMap
    /\ tick_alive0 = {}
    /\ drops = 0
    /\ neg_drop = FALSE
    /\ tick_pos0 = EmptyMap
    /\ tick_total0 = 0
    /\ since_meal = MealClockStart
    /\ call = NoCall
    /\ twin = NoTwin

\* choose_action can draw "stay" for every agent of the sweep
RECURSIVE StayDrawn(_, _)
StayDrawn(w, order) ==
    IF order = << >> THEN TRUE
    ELSE /\ w.agent[Head(order)].pos \in step_draws(w, Head(order))
         /\ StayDrawn(agent_step(w, Head(order), w.agent[Head(order)].pos),
                      Tail(order))

\* (mutant) the loop without its test: it goes on stepping an empty model
PlayingAfterNoTest(e) == TRUE

\* lines 260-262: set_playing(False) and break when the active set is empty
PlayingAfter(e) == Cardinality(e.agents) # 0

\* one iteration of the loop: the lock, model.step(), the test, the lock
\* released (set_tick and the sleep change nothing of the model)
PlayTick ==
    /\ ui_pc = "playing"
    /\ LockFree
    /\ \E order \in Shuffles(agents) :
          /\ StayDrawn(World, order)
          /\ LET w == StaySweep(World, order)
                 dead == SeqOf({id \in agents : ~w.agent[id].is_alive})
                 e == DecayFields(Cleanup(
                        [Engine EXCEPT !.agent = w.agent, !.food = w.food,
                                       !.shared_memory = w.shared_memory,
                                       !.food_scent = w.food_scent], dead))
             IN  /\ EngineIs(e)
                 /\ since_meal' = MealClock(agents, agent, w.agent)
                 /\ ui_pc' = IF PlayingAfter(e) THEN "playing" ELSE "idle"
    /\ UNCHANGED <<todo, dead_agents, simulation_lock, http_pc, http_response,
                   dash_view, tick_hist, call, twin>>

\* the bodies posted to /api/action/drop_food while the loop plays: a small
\* meal for the cell the agents stand on, and the same for a cell off the grid
PlayMeal == FOOD_INTAKE \div 4
PlayRequests == { <<0, 0, PlayMeal>>, <<10 * GRID_WIDTH, 0, PlayMeal>> }

\* the drop_food handler, from the lock to the call of model.drop_food
PlayDrop ==
    /\ HttpEnter("drop_food")
    /\ \E req \in PlayRequests :
         LET x == IntOf(req[1])
             y == IntOf(req[2])
         IN  /\ InBounds(x, y) => drops < MaxDrops
             /\ food' = drop_food(food, x, y, req[3])
             /\ drops' = IF InBounds(x, y) THEN drops + 1 ELSE drops
             /\ http_response' = DropReply(req)
    /\ TemperatureKept
    /\ UNCHANGED <<agent, agents, grid, food_scent, shared_memory, dead_count, steps,
                   tick_vars, dash_view, tick_food0, eaten, tick_alive0, neg_drop,
                   tick_pos0, tick_total0, call, twin, since_meal>>

NextPlay == PlayTick \/ PlayDrop \/ HttpReturn

SpecPlay == InitPlay /\ [][NextPlay]_vars

\* an iteration of the loop, as the step counter shows it: the steps of
\* PlayTick are the steps of it, and it is possible whenever PlayTick is
\* (the loop plays, the lock is free; "stay" can be drawn in every state of
\* these behaviours)
LoopIteration == ui_pc = "playing" /\ LockFree /\ steps' = steps + 1

\* the loop is a task of a running event loop whose `with` waits for the
\* lock: it gets the lock again and again, however often the handlers take
\* it; a handler that has the lock leaves its with-block
SpecPlayLive == SpecPlay /\ SF_steps(LoopIteration) /\ WF_vars(HttpReturn)

(***************************************************************************)
(* The claims                                                              *)
(***************************************************************************)
TickRunning == ui_pc = "tick"

\* C1: in every reachable state every live agent has
\* 0 <= internal_energy <= max_energy.
C1_EnergyWithinStomach ==
    \A id \in AgentIds :
        agent[id].is_alive => 0 <= agent[id].E_int /\ agent[id].E_int <= MAX_ENERGY

\* an agent whose meal was cut to the room left: it is full
C1_Witness ==
    \E id \in AgentIds :
        /\ agent[id].is_alive
        /\ agent[id].E_int = MAX_ENERGY
        /\ \E c \in DOMAIN eaten : eaten[c] > 0

\* C2: an agent has precision 0 exactly when it is dead; every live agent
\* has its precision within [0.5, precision_max].
C2_PrecisionZeroIffDead ==
    \A id \in AgentIds :
        /\ agent[id].is_alive =>
              BETA_MIN <= agent[id].current_beta /\ agent[id].current_beta <= BETA_MAX
        /\ ~agent[id].is_alive => agent[id].current_beta = 0

\* one agent has died and its precision is 0, while another lives on with
\* a precision that its falling mood has brought below the baseline
C2_Witness ==
    \E id, other \in AgentIds :
        /\ ~agent[id].is_alive
        /\ agent[id].current_beta = 0
        /\ agent[other].is_alive
        /\ agent[other].prev_total_error # NoError
        /\ agent[other].current_beta < BETA_BASE

\* C3: after every completed advance(), every agent in the active set or on
\* the grid is alive.
C3_NoDeadAfterTick ==
    ~TickRunning => \A id \in agents \cup grid : agent[id].is_alive

\* a tick in which an agent died is over, and the agent is gone from both
C3_Witness ==
    /\ ~TickRunning
    /\ \E id \in tick_alive0 :
          ~agent[id].is_alive /\ id \notin agents /\ id \notin grid

\* C4: dead_count never decreases; a tick adds to it exactly the number of
\* agents that were alive when the tick began and are dead when it ends;
\* no other step changes it.
C4_DeadCountStep ==
    IF TickRunning /\ ui_pc' = "idle"
    THEN dead_count' - dead_count
            = Cardinality({id \in tick_alive0 : ~agent'[id].is_alive})
    ELSE dead_count' = dead_count

C4_DeadCount == [][C4_DeadCountStep /\ dead_count' >= dead_count]_vars

\* both agents died in one tick, and both were counted
C4_Witness ==
    /\ ~TickRunning
    /\ Cardinality(tick_alive0) = 2
    /\ dead_count = 2

\* C5: in the step in which an agent dies it updates neither its valence nor
\* its error memory, does not move, and writes nothing to its visit map, to
\* shared_memory or to scent.
C5_DyingStep ==
    \A id \in AgentIds :
        agent[id].is_alive /\ ~agent'[id].is_alive =>
            /\ agent'[id].valence_integrated = agent[id].valence_integrated
            /\ agent'[id].prev_total_error = agent[id].prev_total_error
            /\ agent'[id].valence_bound = agent[id].valence_bound
            /\ agent'[id].pos = agent[id].pos
            /\ agent'[id].visits = agent[id].visits
            /\ agent'[id].visit_cleanup_counter = agent[id].visit_cleanup_counter
            /\ shared_memory' = shared_memory
            /\ food_scent' = food_scent

C5_DyingAgentWritesNothing == [][C5_DyingStep]_vars

\* an agent has just died in the running sweep and is still on its cell
C5_Witness ==
    /\ TickRunning
    /\ \E id \in Range(dead_agents) :
          ~agent[id].is_alive /\ agent[id].pos \in Cells

\* C6: as long as every deposit had a non-negative amount, every cell of
\* food, scent and shared_memory is >= 0 (eating never takes more than the
\* cell holds).
C6_FieldsNonNegative ==
    ~neg_drop =>
        \A c \in Cells : food[c] >= 0 /\ food_scent[c] >= 0 /\ shared_memory[c] >= 0

\* a cell has been eaten empty
C6_Witness ==
    /\ ~neg_drop
    /\ \E c \in DOMAIN eaten : eaten[c] > 0 /\ food[c] = 0

\* C7: deposit_food(x, y, amount) adds exactly amount to food(x, y) when
\* (x, y) is in bounds and changes nothing else; out of bounds it changes
\* nothing.
C7_DropStep ==
    http_pc = "idle" /\ http_pc' = "drop_food" =>
        LET req == http_response'.request
            x == IntOf(req[1])
            y == IntOf(req[2])
        IN  /\ \A c \in Cells :
                  food'[c] = food[c]
                             + (IF c[1] = x /\ c[2] = y THEN req[3] ELSE 0)
            /\ UNCHANGED <<agent, agents, grid, food_scent, shared_memory,
                           dead_count, steps>>

C7_DropFoodFrame == [][C7_DropStep]_vars

\* a deposit onto a cell that held nothing has been made
C7_Witness ==
    /\ http_pc = "drop_food"
    /\ http_response.request = <<0, 20, 1500>>
    /\ food[<<0, 2>>] = 1500

\* C8: a tick or reset and an HTTP read or deposit are never in progress
\* together, whichever is in progress holds the lock, and an HTTP handler
\* never sees a partially executed tick (an agent dead but not yet removed
\* and counted).
C8_OneAtATime ==
    /\ ~(ui_pc # "idle" /\ http_pc # "idle")
    /\ ui_pc # "idle" => simulation_lock = "ui"
    /\ http_pc # "idle" =>
          /\ simulation_lock = "http"
          /\ todo = << >> /\ dead_agents = << >>
          /\ \A id \in agents : agent[id].is_alive
    /\ http_pc = "get_state" =>
          http_response.agents_alive + http_response.agents_dead = NUM_AGENTS

\* the state is being read after a tick in which an agent died
C8_Witness ==
    /\ http_pc = "get_state"
    /\ http_response.agents_dead > 0
    /\ http_response.step > LateTicks

\* C9: every read of the simulation by an observer, the dashboard's
\* statistics included, is made under the lock, so what an observer has
\* read is a snapshot of a tick boundary: the agents it saw alive and the
\* dead it saw counted add up to the population.
C9_ObserversSeeTickBoundaries ==
    /\ http_pc = "get_state" =>
          /\ simulation_lock = "http"
          /\ http_response.agents_alive + http_response.agents_dead = NUM_AGENTS
    /\ dash_view # NoView =>
          /\ ~TickRunning
          /\ dash_view.n_alive + dash_view.dead_count = NUM_AGENTS

\* C10: the agents of a tick eat one after another from the food the
\* earlier ones left: what is eaten from a cell in one tick never exceeds
\* what the cell held when the tick began.
C10_EatenWithinTickStart ==
    \A c \in DOMAIN eaten : eaten[c] <= Max(tick_food0[c], 0)

\* two agents have eaten from one cell in one tick, the second what the
\* first left
C10_Witness ==
    \E c \in DOMAIN eaten :
        /\ eaten[c] > FOOD_INTAKE
        /\ eaten[c] = tick_food0[c]
        /\ food[c] = 0
        /\ Cardinality({id \in tick_alive0 : agent[id].E_int < MAX_ENERGY}) = 2

\* agent.step() is being called on a live agent
StepOfLive(id) ==
    call' # call /\ call'.method = "step" /\ call'.id = id /\ agent[id].is_alive

\* Scenario B as it enters the step: five units of room, twenty of food
ScenarioB(a, f) ==
    a.is_alive /\ a.E_int = MAX_ENERGY - 5 * UNIT /\ f[a.pos] = 20 * UNIT

\* C11 as stated: an agent that enters a tick with energy = max_energy - 5 on
\* a cell holding food = 20 takes min(10, 20, 5) = 5, so that afterwards its
\* energy is max_energy and the cell holds 15.
C11_ScenarioB_AsStatedStep ==
    \A id \in UnitIds :
        StepOfLive(id) /\ ScenarioB(agent[id], food) =>
            /\ agent'[id].E_int = MAX_ENERGY
            /\ food'[agent[id].pos] = 15 * UNIT

C11_ScenarioB_AsStated == [][C11_ScenarioB_AsStatedStep]_vars

\* C11 amended: metabolism is charged before the meal, so the room left is
\* 5 + metabolism cost: the intake is min(10, 20, 5.15) = 5.15, afterwards the
\* energy is max_energy and the cell holds 20 - 5.15 = 14.85.
C11_ScenarioBStep ==
    \A id \in UnitIds :
        StepOfLive(id) /\ ScenarioB(agent[id], food) =>
            /\ agent'[id].E_int = MAX_ENERGY
            /\ food'[agent[id].pos] = 20 * UNIT - (5 * UNIT + METABOLISM)
            /\ \A c \in Cells \ {agent[id].pos} : food'[c] = food[c]

C11_ScenarioB == [][C11_ScenarioBStep]_vars

\* the step of Scenario B has been made
C11_Witness ==
    /\ call # NoCall /\ call.method = "step" /\ call.n = 1
    /\ call.before.E_int = MAX_ENERGY - 5 * UNIT
    /\ agent[call.id].E_int = MAX_ENERGY
    /\ food[UnitCell] = 20 * UNIT - 5 * UNIT - METABOLISM

\* C12: after a tick in which a live agent's intake exceeded 1.0, its
\* signal_timer equals the full FOOD_SIGNAL_DURATION.
C12_TimerFullAfterMealStep ==
    \A id \in UnitIds :
        /\ StepOfLive(id)
        /\ food[agent[id].pos] - food'[agent[id].pos] > SIGNAL_INTAKE
        /\ agent'[id].is_alive
        => agent'[id].food_signal_timer = FOOD_SIGNAL_DURATION

C12_TimerFullAfterMeal == [][C12_TimerFullAfterMealStep]_vars

\* C13: a live agent on a cell whose food is at or below the eating epsilon,
\* with more energy than the metabolism cost, loses exactly the metabolism
\* cost in one tick, leaves the food field as it was, and keeps a
\* signal_timer of 0 at 0.
C13_NoFoodStep ==
    \A id \in UnitIds :
        /\ StepOfLive(id)
        /\ food[agent[id].pos] <= EAT_EPSILON
        /\ agent[id].E_int > METABOLISM
        => /\ agent'[id].E_int = agent[id].E_int - METABOLISM
           /\ agent'[id].is_alive
           /\ food' = food
           /\ agent[id].food_signal_timer = 0 => agent'[id].food_signal_timer = 0

C13_NoFood == [][C13_NoFoodStep]_vars

\* Scenario A has been stepped, on a cell holding exactly the epsilon
C13_Witness ==
    /\ call # NoCall /\ call.method = "step" /\ call.n = 1
    /\ call.before.E_int = CRITICAL_ENERGY - UNIT
    /\ call.before.food_signal_timer = 0
    /\ food[UnitCell] = EAT_EPSILON
    /\ agent[call.id].E_int = CRITICAL_ENERGY - UNIT - METABOLISM
    /\ agent[call.id].food_signal_timer = 0

\* what Scenario C has of the agent afterwards: dead at energy 0 with
\* precision 0, and nothing written to its visits, shared_memory or scent
DeadWithoutTrace(id) ==
    /\ agent'[id].E_int = 0
    /\ ~agent'[id].is_alive
    /\ agent'[id].current_beta = 0
    /\ agent'[id].visits = agent[id].visits
    /\ agent'[id].visit_cleanup_counter = agent[id].visit_cleanup_counter
    /\ shared_memory' = shared_memory
    /\ food_scent' = food_scent

\* C14 as stated: a live agent that enters a tick with energy exactly 0 ends
\* it, whatever the fields hold at its cell, dead with energy 0 and precision
\* 0, having written no memory and no scent.
C14_ScenarioC_AsStatedStep ==
    \A id \in UnitIds :
        StepOfLive(id) /\ agent[id].E_int = 0 => DeadWithoutTrace(id)

C14_ScenarioC_AsStated == [][C14_ScenarioC_AsStatedStep]_vars

\* C14 amended: ... on a cell that holds no more food than the metabolism
\* cost (the meal is taken before the death check, and a larger one keeps
\* the agent alive).
C14_ScenarioCStep ==
    \A id \in UnitIds :
        /\ StepOfLive(id)
        /\ agent[id].E_int = 0
        /\ food[agent[id].pos] <= METABOLISM
        => DeadWithoutTrace(id)

C14_ScenarioC == [][C14_ScenarioCStep]_vars

\* an agent that entered its step with energy 0, on a cell with scent and
\* shared memory and a morsel of food, is dead
C14_Witness ==
    /\ call # NoCall /\ call.method = "step" /\ call.n = 1
    /\ call.before.is_alive /\ call.before.E_int = 0
    /\ ~agent[call.id].is_alive /\ agent[call.id].E_int = 0
    /\ food_scent[UnitCell] > 0 /\ shared_memory[UnitCell] > 0
    /\ food[UnitCell] = 0
    /\ call.before.visits = agent[call.id].visits

\* C19: a method called on a dead agent changes nothing, of the agent, of the
\* fields or of the engine, and choose_action returns the agent's position.
C19_DeadAgentStep ==
    \A id \in UnitIds :
        call' # call /\ call'.id = id /\ ~agent[id].is_alive =>
            /\ UNCHANGED engine_vars
            /\ call'.method = "choose_action" => call'.ret = agent[id].pos

C19_DeadAgentNoOp == [][C19_DeadAgentStep]_vars

\* a method has been called on an agent that an earlier step had killed
C19_Witness ==
    /\ call # NoCall /\ call.n = 2
    /\ ~call.before.is_alive
    /\ agent[call.id] = call.before

\* C15: the private visit map is pruned on every 50th memory update of its
\* agent and on no other: over an agent's first 50 ticks on distinct cells,
\* the entries that have fallen below the floor 0.05 stay in the map through
\* ticks 1..49, and right after tick 50 the map holds no entry below 0.05.
C15_PrunedEveryFiftieth ==
    \A id \in agents :
        LET a == agent[id]
            below == {c \in DOMAIN a.visits : a.visits[c] < FLOOR}
        IN  /\ a.visit_cleanup_counter = steps % CLEANUP_EVERY
            /\ steps < CLEANUP_EVERY => Cardinality(DOMAIN a.visits) = steps
            /\ steps = CLEANUP_EVERY - 1 => below # {}
            /\ a.visit_cleanup_counter = 0 => below = {}

\* tick 50 is over, and the map has lost the cells of the early ticks
C15_Witness ==
    /\ steps = CLEANUP_EVERY
    /\ \E id \in agents :
          /\ agent[id].visit_cleanup_counter = 0
          /\ DOMAIN agent[id].visits # {}
          /\ Cardinality(DOMAIN agent[id].visits) < CLEANUP_EVERY
          /\ \A c \in DOMAIN agent[id].visits : agent[id].visits[c] >= FLOOR

\* the two cells are the same or neighbours, diagonals included
Near(p, q) == Abs(p[1] - q[1]) <= 1 /\ Abs(p[2] - q[2]) <= 1

\* C16: the candidate set of choose_action holds the agent's own cell and
\* only cells of the grid, so that every agent of the simulation stands on a
\* cell of the grid and a tick moves it by at most 1 in each coordinate,
\* never around an edge.
C16_MovesStayOnGrid ==
    \A id \in agents \cup grid :
        LET p == agent[id].pos
        IN  /\ p \in Cells
            /\ p \in Candidates(p)
            /\ \A c \in Candidates(p) : c \in Cells /\ Near(c, p)
            /\ id \in DOMAIN tick_pos0 => Near(p, tick_pos0[id])

\* an agent has moved off a cell of the west edge, where the candidates are
\* fewer than nine
C16_Witness ==
    \E id \in agents :
        /\ id \in DOMAIN tick_pos0
        /\ tick_pos0[id][1] = 0
        /\ Cardinality(Candidates(tick_pos0[id])) < 9
        /\ agent[id].pos # tick_pos0[id]
        /\ agent[id].pos \in Cells

\* C17: two simulation instances constructed with the same seed and driven
\* by the same sequence of advance() and deposit_food() calls pass through
\* identical states.
C17_SameSeedSameStates == twin # NoTwin => twin = Engine

\* C18: death and removal are irreversible: an agent that is dead stays
\* dead, an agent removed from the active set and the grid is never put
\* back, the active set only shrinks and no agent is created after
\* initialization.
C18_IrreversibleStep ==
    /\ \A id \in AgentIds : ~agent[id].is_alive => ~agent'[id].is_alive
    /\ agents' \subseteq agents
    /\ grid' \subseteq grid
    /\ DOMAIN agent' = DOMAIN agent

C18_Irreversible == [][C18_IrreversibleStep]_vars

\* a whole tick has run since an agent died and was removed: it is still
\* dead and still out
C18_Witness ==
    /\ ~TickRunning
    /\ tick_alive0 # {}
    /\ \E id \in AgentIds \ tick_alive0 :
          ~agent[id].is_alive /\ id \notin agents /\ id \notin grid

\* one decay of a cell: multiplied, then put to 0 when below the floor
DecayedOnce(v, percent) ==
    IF (v * percent) \div UNIT < FLOOR THEN 0 ELSE (v * percent) \div UNIT

\* C20: one advance() is one tick in a fixed order: the agents of the active
\* set at its start are stepped once each, none skipped and none twice; the
\* dead are removed only when the sweep is over; scent and shared_memory are
\* then decayed once; and the tick counter goes up by 1.
C20_OneTickStep ==
    /\ ~TickRunning /\ TickRunning' =>
          /\ Len(todo') = Cardinality(agents)
          /\ Range(todo') = agents
          /\ UNCHANGED engine_vars
    /\ TickRunning /\ TickRunning' =>
          /\ todo # << >>
          /\ todo' = Tail(todo)
          /\ \A id \in AgentIds \ {Head(todo)} : agent'[id] = agent[id]
          /\ UNCHANGED <<agents, grid, dead_count, steps>>
    /\ TickRunning /\ ~TickRunning' =>
          /\ todo = << >>
          /\ agents' = {id \in agents : agent[id].is_alive}
          /\ grid' = {id \in grid : agent[id].is_alive}
          /\ \A c \in Cells :
                /\ food_scent'[c] = DecayedOnce(food_scent[c], SCENT_DECAY)
                /\ shared_memory'[c] = DecayedOnce(shared_memory[c], MEMORY_DECAY)
          /\ food' = food
          /\ steps' = steps + 1
    /\ ~TickRunning /\ ~TickRunning' => steps' = steps

C20_OneTick == [][C20_OneTickStep]_vars

\* a tick of two agents is over that left scent and shared memory behind
C20_Witness ==
    /\ ~TickRunning
    /\ Cardinality(tick_alive0) = 2
    /\ steps > 0
    /\ \E c \in Cells : food_scent[c] > 0 /\ shared_memory[c] > 0

\* C21: the state projection lists a snapshot (id, position, energy, temp,
\* valence) for exactly the agents with alive = true and for no dead agent,
\* its alive count is the number of snapshots, its dead count is the engine's
\* dead_count, and computing it changes nothing of the simulation.
C21_StateProjectionStep ==
    http_pc = "idle" /\ http_pc' = "get_state" =>
        LET view == http_response'
            alive == {id \in AgentIds : agent[id].is_alive}
        IN  /\ {d.id : d \in view.agents_details} = alive
            /\ \A d \in view.agents_details :
                  /\ <<d.x, d.y>> = agent[d.id].pos
                  /\ d.energy = agent[d.id].E_int
                  /\ d.temp = agent[d.id].T_int
                  /\ d.valence = agent[d.id].valence_integrated
            /\ view.agents_alive = Cardinality(view.agents_details)
            /\ view.agents_alive = Cardinality(alive)
            /\ view.agents_dead = dead_count
            /\ view.step = steps
            /\ UNCHANGED engine_vars

C21_StateProjection == [][C21_StateProjectionStep]_vars

\* the state has been read of a simulation with one agent dead and one
\* alive: one snapshot, of the live one
C21_Witness ==
    /\ http_pc = "get_state"
    /\ http_response.agents_dead = 1
    /\ \E id \in AgentIds :
          /\ agent[id].is_alive
          /\ {d.id : d \in http_response.agents_details} = {id}
    /\ \E id \in AgentIds : ~agent[id].is_alive

\* C22: in the decay step of every tick, each scent and shared_memory cell
\* that is non-zero before the decay is strictly smaller after it, and each
\* cell whose decayed value is below the floor 0.05 is set to exactly 0; hence
\* at every tick boundary each cell of both fields is exactly 0 or >= 0.05.
C22_DecayStep ==
    TickRunning /\ ~TickRunning' =>
        \A c \in Cells :
            /\ food_scent[c] # 0 => food_scent'[c] < food_scent[c]
            /\ shared_memory[c] # 0 => shared_memory'[c] < shared_memory[c]
            /\ (food_scent[c] * SCENT_DECAY) \div UNIT < FLOOR => food_scent'[c] = 0
            /\ (shared_memory[c] * MEMORY_DECAY) \div UNIT < FLOOR
                  => shared_memory'[c] = 0

C22_AtTickBoundary ==
    ~TickRunning =>
        \A c \in Cells :
            /\ food_scent[c] = 0 \/ food_scent[c] >= FLOOR
            /\ shared_memory[c] = 0 \/ shared_memory[c] >= FLOOR

C22_DecayToFloor == [][C22_DecayStep]_vars /\ []C22_AtTickBoundary

\* a tick has ended in which the trace an agent left on a cell of its walk
\* was put to 0, while the scent and the traces of the later cells remain
C22_Witness ==
    /\ ~TickRunning
    /\ steps < CLEANUP_EVERY
    /\ \E id \in agents :
          \E c \in DOMAIN agent[id].visits :
              /\ shared_memory[c] = 0
              /\ \E d \in DOMAIN agent[id].visits :
                    shared_memory[d] >= FLOOR /\ shared_memory[d] < 2 * FLOOR
    /\ \E c \in Cells : food_scent[c] >= FLOOR

\* C23: POST /api/action/drop_food with a body holding numbers x, y and
\* amount is answered 200 with status "success" whenever a simulation is
\* installed, for in-bounds and out-of-bounds coordinates alike; for
\* out-of-bounds coordinates the food field is unchanged although success is
\* reported.  (The replies 400 and 500 go to bodies that lack a number.)
C23_DropReplyStep ==
    /\ http_pc = "idle" /\ http_pc' = "drop_food" =>
          LET reply == http_response'
              x == IntOf(reply.request[1])
              y == IntOf(reply.request[2])
          IN  /\ reply.code = 200
              /\ reply.status = "success"
              /\ ~InBounds(x, y) => food' = food
    /\ http_pc = "idle" /\ http_pc' \in {"rejected", "drop_food_fault"} =>
          /\ http_response'.code # 200
          /\ ~AllNumbers(http_response'.body)
          /\ food' = food

C23_DropAlwaysSuccess == [][C23_DropReplyStep]_vars

\* the test's request, one column east of the grid, has been answered with
\* success, and the food is as the ticks before it left it
C23_Witness ==
    /\ http_pc = "drop_food"
    /\ http_response.request = <<10 * GRID_WIDTH, 20, 1500>>
    /\ http_response.code = 200
    /\ http_response.status = "success"
    /\ drops = 0
    /\ steps > 0

\* C24: the food field stays >= 0 under every request the drop_food endpoint
\* accepts: only non-negative amounts ever reach the engine's additive
\* deposit, whatever number the body gives as amount.
C24_OnlyNonNegativeDeposits ==
    /\ \A c \in Cells : food[c] >= 0
    /\ http_pc = "drop_food" => http_response.request[3] >= 0

\* C25: the temperature field is fixed after initialization: no advance(),
\* deposit_food(), agent step or read projection ever changes any temperature
\* cell.
C25_TemperatureStep ==
    \A c \in Cells : model_temperature'[c] = model_temperature[c]

C25_TemperatureFixed ==
    [][C25_TemperatureStep]_vars
    /\ [](model_temperature = temperature)

\* ticks have run, food has been deposited and the state is being read: the
\* field, which is not flat, is the one generated
C25_Witness ==
    /\ http_pc = "get_state"
    /\ drops > 0
    /\ TicksRun > 0
    /\ tick_alive0 # {}
    /\ model_temperature = temperature
    /\ \E c, d \in Cells : model_temperature[c] > model_temperature[d] + UNIT

\* C26: for every legal candidate cell, the food intake used in
\* choose_action's predicted energy is the intake the eating rule of the
\* physiology update would compute for the agent on that cell after
\* metabolism, min(intake cap, food at the cell, stomach room left), and 0
\* when food <= 0.1 or there is no room; hence the predicted energy never
\* exceeds max_energy.
C26_PredictedIntakeIsEatingRule ==
    call # NoCall /\ call.method = "choose_action" /\ call.before.is_alive =>
        \A c \in Candidates(call.before.pos) :
            LET a == call.before
                intake_pred == IntakePred(a, food[c])
            IN  /\ intake_pred = Intake(a.E_int - METABOLISM, food[c])
                /\ a.E_int - METABOLISM + intake_pred <= MAX_ENERGY

\* C27: a surviving agent's tick runs physiology, then action choice and
\* move, then the memory/scent update: thermal relaxation and eating use the
\* cell occupied at the start of the agent's step, while the private-visit
\* increment, the +1 shared_memory deposit and the scent deposit of that tick
\* are all applied to the cell occupied after the move chosen in that tick.
C27_StepOrderStep ==
    TickRunning /\ TickRunning' /\ todo # << >> =>
        LET id == Head(todo)
            a == agent[id]
            b == agent'[id]
            from == a.pos
            to == b.pos
            intake == food[from] - food'[from]
        IN  a.is_alive /\ b.is_alive =>
              \* physiology, on the cell the step began on
              /\ b.T_int = a.T_int + ((ETA * (temperature[from] - a.T_int)) \div UNIT)
              /\ intake = Intake(a.E_int - METABOLISM, food[from])
              /\ b.E_int = a.E_int - METABOLISM + intake
              /\ \A c \in Cells \ {from} : food'[c] = food[c]
              \* the choice, made by the agent the physiology left
              /\ to \in choose_action([b EXCEPT !.pos = from], food',
                                      shared_memory, food_scent)
              \* memory and scent, on the cell moved to
              /\ to \in DOMAIN b.visits
              /\ b.visits[to] = ((Get(a.visits, to) + UNIT) * MEMORY_DECAY) \div UNIT
              /\ \A c \in Cells :
                    /\ shared_memory'[c]
                          = shared_memory[c] + (IF c = to THEN UNIT ELSE 0)
                    /\ food_scent'[c]
                          = food_scent[c]
                            + (IF c = to /\ b.food_signal_timer > 0
                               THEN SignalStrength(b.food_signal_timer) ELSE 0)

C27_StepOrder == [][C27_StepOrderStep]_vars

\* an agent has eaten on the cell it began on and moved: its traces and its
\* scent are on the new cell, and the old cell has none of them
C27_Witness ==
    /\ TickRunning
    /\ \E id \in tick_alive0 \ Range(todo) :
          LET from == tick_pos0[id]
              to == agent[id].pos
          IN  /\ agent[id].is_alive
              /\ to # from
              /\ eaten[from] > SIGNAL_INTAKE
              /\ food_scent[to] > 0
              /\ shared_memory[to] = UNIT
              /\ to \in DOMAIN agent[id].visits
              /\ food_scent[from] = 0
              /\ shared_memory[from] = 0

\* C28: signal_timer is in every reachable state a value in
\* 0..FOOD_SIGNAL_DURATION and never negative; in each tick of a live agent in
\* which the timer is > 0 after the eating step it decreases by exactly 1; if
\* the agent does not again eat more than 1.0, the timer reaches 0 within
\* FOOD_SIGNAL_DURATION ticks, and from then on the agent deposits no scent.
C28_TimerStep ==
    ~TickRunning /\ TickRunning' =>
        /\ \A id \in agents :
              LET a == agent[id]
                  b == agent'[id]
                  intake == b.E_int - a.E_int + METABOLISM
                  after_eating == IF intake > SIGNAL_INTAKE THEN FOOD_SIGNAL_DURATION
                                  ELSE a.food_signal_timer
              IN  a.is_alive /\ b.is_alive =>
                    b.food_signal_timer
                        = IF after_eating > 0 THEN after_eating - 1 ELSE 0
        /\ \A c \in Cells :
              LET signalling == {id \in agents : /\ agent'[id].is_alive
                                                 /\ agent'[id].pos = c
                                                 /\ agent'[id].food_signal_timer > 0}
              IN  /\ signalling = {} => food_scent'[c] = food_scent[c]
                  /\ signalling # {} => food_scent'[c] > food_scent[c]

C28_TimerRange ==
    \A id \in AgentIds :
        /\ agent[id].food_signal_timer \in 0 .. FOOD_SIGNAL_DURATION
        /\ since_meal[id] >= FOOD_SIGNAL_DURATION => agent[id].food_signal_timer = 0

C28_TimerRunsOut == [][C28_TimerStep]_vars /\ []C28_TimerRange

\* an agent's latest meal is more than FOOD_SIGNAL_DURATION ticks ago: its
\* timer is 0, and the cell it has just walked onto has no scent, while the
\* scent it left when the timer ran has not yet faded
C28_Witness ==
    /\ TickRunning
    /\ \E id \in agents :
          /\ agent[id].is_alive
          /\ since_meal[id] > FOOD_SIGNAL_DURATION
          /\ agent[id].food_signal_timer = 0
          /\ food_scent[agent[id].pos] = 0
          /\ food_scent[tick_pos0[id]] = 0
          /\ shared_memory[agent[id].pos] = UNIT
    /\ \E c \in Cells : food_scent[c] > 0

\* C29: after the first tick that a newly created agent survives, its
\* instantaneous valence was 0, so its integrated_valence is exactly 0 and its
\* precision equals base_precision, whatever its temperature and energy
\* errors are; previous_total_error is then that tick's total error.
C29_FirstTickStep ==
    \A id \in UnitIds :
        /\ call' # call
        /\ call'.id = id
        /\ call'.method \in {"step", "update_internal_state"}
        /\ agent[id].is_alive
        /\ agent[id].prev_total_error = NoError
        /\ agent'[id].is_alive
        => /\ agent'[id].valence_integrated = 0
           /\ agent'[id].current_beta = BETA_BASE
           /\ agent'[id].valence_bound = VALENCE_BOUND_INIT
           /\ agent'[id].prev_total_error
                 = WEIGHT_TEMP * Abs(agent'[id].T_int - IDEAL_TEMP)
                   + WEIGHT_ENERGY * Max(0, CRITICAL_ENERGY - agent'[id].E_int)

C29_FirstTickNeutral == [][C29_FirstTickStep]_vars

\* a newborn agent, cold and hungry, has made its first step: its error is
\* recorded, of temperature and of energy, and its mood and precision are
\* those it was born with
C29_Witness ==
    /\ call # NoCall /\ call.method = "step" /\ call.n = 1
    /\ call.before.prev_total_error = NoError
    /\ agent[call.id].is_alive
    /\ agent[call.id].E_int < CRITICAL_ENERGY
    /\ agent[call.id].T_int # IDEAL_TEMP
    /\ agent[call.id].prev_total_error
          > WEIGHT_ENERGY * (CRITICAL_ENERGY - agent[call.id].E_int)
    /\ agent[call.id].valence_integrated = 0
    /\ agent[call.id].current_beta = BETA_BASE

\* an agent without what is private to it: its visit map and cleanup counter
Public(a) == [a EXCEPT !.visits = EmptyMap, !.visit_cleanup_counter = 0]

PublicEngine(e) == [e EXCEPT !.agent = [id \in DOMAIN e.agent |-> Public(e.agent[id])]]

\* C30: an agent's private visit map influences nothing but itself: two runs
\* that differ only in the contents of one agent's visit map (and its cleanup
\* counter) and receive the same random draws evolve identically in every
\* field, in every agent's position, energy, temperature, valence, precision
\* and timer, in the active set and in dead_count; the scores the softmax
\* samples from are the same in both, so the same draw is the same move.
C30_VisitsInfluenceNothing ==
    twin # NoTwin =>
        /\ PublicEngine(Engine) = PublicEngine(twin)
        /\ \A id \in agents :
              /\ choose_action(agent[id], food, shared_memory, food_scent)
                    = choose_action(twin.agent[id], twin.food, twin.shared_memory,
                                    twin.food_scent)
              /\ \A c \in Candidates(agent[id].pos) :
                    Score(agent[id], c, food, shared_memory, food_scent)
                        = Score(twin.agent[id], c, twin.food, twin.shared_memory,
                                twin.food_scent)

\* a tick is over in which the agents ate and one moved; the maps of the two
\* runs differ, the one having been pruned and the other not
C30_Witness ==
    /\ twin # NoTwin
    /\ steps > 0
    /\ \E id \in agents :
          /\ agent[id].visits # twin.agent[id].visits
          /\ twin.agent[id].visit_cleanup_counter = 0
          /\ agent[id].visit_cleanup_counter = 1
          /\ DOMAIN twin.agent[id].visits # DOMAIN agent[id].visits
    /\ \E id \in agents : agent[id].pos # <<0, 2>>
    /\ \E c \in Cells : food_scent[c] > 0


\* C31: population is conserved: at every tick boundary the size of the
\* active set plus dead_count equals the number of agents spawned at
\* initialization; dead_count never exceeds that number, and no agent is
\* counted dead more than once (the count is the number of dead agents, and
\* no agent is twice in the list of those to be removed).
C31_PopulationConserved ==
    /\ dead_count <= NUM_AGENTS
    /\ \A i, j \in DOMAIN dead_agents : dead_agents[i] = dead_agents[j] => i = j
    /\ ~TickRunning =>
          /\ Cardinality(agents) + dead_count = NUM_AGENTS
          /\ agents = {id \in AgentIds : agent[id].is_alive}
          /\ dead_count = Cardinality({id \in AgentIds : ~agent[id].is_alive})

\* a tick that both agents began is over: one of them died in it and has
\* been counted, the other is still in the active set
C31_Witness ==
    /\ ~TickRunning
    /\ tick_alive0 = AgentIds
    /\ Cardinality(agents) = 1
    /\ dead_count = 1


\* C32: eating conserves quantity: every eating event increases the agent's
\* energy by exactly the amount it removes from the agent's cell (a survivor
\* ends its step with what it had, less the metabolism cost, plus what the
\* cell lost; no other cell changes); inside a tick no food cell increases,
\* and a step that increases a food cell is a drop_food call; so from the
\* beginning of a tick to the end of its sweep the total food plus the total
\* energy of the agents alive at its beginning has not increased, and the
\* rest of the tick changes neither.
C32_EatingStep ==
    /\ TickRunning /\ todo # << >> /\ todo' = Tail(todo) =>
          LET id == Head(todo)
              c == agent[id].pos
          IN  /\ \A d \in Cells \ {c} : food'[d] = food[d]
              /\ food'[c] <= food[c]
              /\ eaten'[c] - eaten[c] = food[c] - food'[c]
              /\ agent'[id].is_alive =>
                    agent'[id].E_int - (agent[id].E_int - METABOLISM)
                        = food[c] - food'[c]
              /\ ~agent'[id].is_alive => agent'[id].E_int = 0
    /\ TickRunning \/ ui_pc' = "tick" => \A d \in Cells : food'[d] <= food[d]
    /\ TickRunning /\ ui_pc' = "idle" =>
          food' = food /\ \A id \in AgentIds : agent'[id].E_int = agent[id].E_int
    /\ (\E d \in Cells : food'[d] > food[d]) =>
          http_pc = "idle" /\ http_pc' = "drop_food"

C32_AcrossTick ==
    TickRunning =>
        TotalFood(food) + TotalEnergy(tick_alive0)
            <= tick_total0

C32_EatingConserves == [][C32_EatingStep]_vars /\ []C32_AcrossTick

\* the sweep of a tick is over: food was eaten in it, and the food and the
\* energy of those who began it add up to less than when it began
C32_Witness ==
    /\ TickRunning
    /\ todo = << >>
    /\ \E c \in DOMAIN eaten : eaten[c] > 0
    /\ tick_alive0 # {}
    /\ TotalFood(food) + TotalEnergy(tick_alive0)
          < tick_total0


\* C33: if from some point on no drop_food call is made, and the ticks of
\* the play loop keep being executed, every agent eventually dies and the
\* active set becomes empty, for good; the loop steps the model only while
\* it plays, it goes on playing after a tick that leaves an agent in the
\* active set and stops with the first tick that leaves none, and once
\* stopped it steps no more.
C33_DropCall == http_pc = "idle" /\ http_pc' = "drop_food"

C33_PlayStep ==
    /\ steps' # steps =>
          /\ ui_pc = "playing"
          /\ steps' = steps + 1
          /\ ui_pc' = IF agents' = {} THEN "idle" ELSE "playing"
    /\ ui_pc = "idle" => ui_pc' = "idle" /\ steps' = steps

C33_PlaysWhileInhabited == (ui_pc = "playing") <=> (agents # {})

C33_StarveAndStop ==
    /\ [][C33_PlayStep]_vars
    /\ []C33_PlaysWhileInhabited
    /\ (<>[][~C33_DropCall]_vars => <>[](agents = {} /\ ui_pc = "idle"))

\* the loop has stopped on an empty model, later than the energy the agents
\* were born with would have let the last of them live: a deposit was eaten
C33_Witness ==
    /\ ui_pc = "idle"
    /\ agents = {}
    /\ dead_count = NUM_AGENTS
    /\ drops > 0
    /\ steps > (INIT_ENERGY_MIN + UNIT) \div METABOLISM + 1
=============================================================================
